---- MODULE Spec2Model ----
(***************************************************************************)
(* Model of prow's GitHub report package (src/unnamed/part_000): the       *)
(* status mapper, the comment-history parser / entry reconciler, the       *)
(* comment renderer and the synchronizer (ReportStatusContext,             *)
(* ReportComment, Report) running against a remote comment store.          *)
(*                                                                         *)
(* Text is modelled as a sequence of tokens.  A token is either one        *)
(* character that the parser looks at (" ", "|", "-", "\n", "\r") or an    *)
(* atomic word that holds none of these characters.  Splitting, trimming,  *)
(* prefix tests and joining are computed on these sequences the way the    *)
(* Go strings package computes them on bytes.                              *)
(***************************************************************************)
EXTENDS Integers, Sequences, FiniteSets, TLC

VARIABLES issueComments, commitComments, nextID, calls, err, run, parsed, prev

vars == <<issueComments, commitComments, nextID, calls, err, run, parsed, prev>>

(***************************************************************************)
(* Bounds of the model.                                                    *)
(***************************************************************************)
\* longest initial comment list of a review unit
MaxHist == 2
\* most jobs in one batch handed to ReportComment / parseIssueComments
MaxBatch == 2
\* most serial runs of ReportComment against one store
MaxRuns == 2

(***************************************************************************)
(* Sequence helpers.                                                       *)
(***************************************************************************)
Range(s) == {s[i] : i \in 1..Len(s)}

(***************************************************************************)
(* The strings package, on token sequences.                                *)
(***************************************************************************)
NL == "\n"
WhiteSpace == {" ", "\r", "\t", "\n"}

\* the indices at which sub occurs in s
Occurrences(s, sub) ==
    {i \in 1..(Len(s) - Len(sub) + 1) : \A k \in 1..Len(sub) : s[i + k - 1] = sub[k]}

\* least index at which sub occurs in s, 0 when it does not
LeastOr0(hits) == IF hits = {} THEN 0 ELSE CHOOSE i \in hits : \A j \in hits : i <= j

IndexOf(s, sub) == LeastOr0(Occurrences(s, sub))

Contains(s, sub) == IndexOf(s, sub) > 0

HasPrefix(s, p) == Len(s) >= Len(p) /\ SubSeq(s, 1, Len(p)) = p

\* the occurrences of sep that strings.Split cuts at: left to right, none
\* overlapping the one before it
RECURSIVE SplitCuts(_, _, _)
SplitCuts(hits, width, from) ==
    IF {i \in hits : i >= from} = {} THEN <<>>
    ELSE <<LeastOr0({i \in hits : i >= from})>>
            \o SplitCuts(hits, width, LeastOr0({i \in hits : i >= from}) + width)

\* the pieces of s between the cuts
SplitPieces(s, width, cuts) ==
    [k \in 1..(Len(cuts) + 1) |->
        SubSeq(s, IF k = 1 THEN 1 ELSE cuts[k - 1] + width,
                  IF k > Len(cuts) THEN Len(s) ELSE cuts[k] - 1)]

Split(s, sep) == SplitPieces(s, Len(sep), SplitCuts(Occurrences(s, sep), Len(sep), 1))

RECURSIVE TrimLeft(_)
TrimLeft(s) == IF s # <<>> /\ Head(s) \in WhiteSpace THEN TrimLeft(Tail(s)) ELSE s

RECURSIVE TrimRight(_)
TrimRight(s) ==
    IF s # <<>> /\ s[Len(s)] \in WhiteSpace THEN TrimRight(SubSeq(s, 1, Len(s) - 1)) ELSE s

TrimSpace(s) == TrimRight(TrimLeft(s))

RECURSIVE Join(_, _)
Join(parts, sep) ==
    IF parts = <<>> THEN <<>>
    ELSE IF Len(parts) = 1 THEN parts[1]
    ELSE parts[1] \o sep \o Join(Tail(parts), sep)

(***************************************************************************)
(* Literals of the package.                                                *)
(***************************************************************************)
commentTag == "<!-- test report -->"
prCommitNote == "postsubmit job(s) were triggered at commit: "

FieldSep == <<" ", "|", " ">>
Divider == <<"-", "-", "-">>

StatusPending == "pending"
StatusSuccess == "success"
StatusError == "error"
StatusFailure == "failure"

TriggeredState == "triggered"
PendingState == "pending"
SuccessState == "success"
FailureState == "failure"
AbortedState == "aborted"
ErrorState == "error"

KnownStates ==
    {TriggeredState, PendingState, SuccessState, FailureState, AbortedState, ErrorState}

PresubmitJob == "presubmit"
PostsubmitJob == "postsubmit"
PeriodicJob == "periodic"
BatchJob == "batch"

JobTypes == {PresubmitJob, PostsubmitJob, PeriodicJob, BatchJob}

\* errors are sequences of messages, outermost wrapper first; nil is empty
NoError == <<>>
ErrUnknownState == <<"Unknown prowjob state">>
ErrNoClient == <<"found empty github client">>
ErrRemote(call) == <<call, "remote call failed">>
WrapError(msg, e) == <<msg>> \o e

(***************************************************************************)
(* Review units and jobs.                                                  *)
(***************************************************************************)
Pull1 == [Number |-> 1, SHA |-> "head1", Author |-> "alice"]
Pull2 == [Number |-> 2, SHA |-> "head2", Author |-> "bob"]

Refs(base, pulls) ==
    [Org |-> "k8s", Repo |-> "test-infra", BaseSHA |-> base, Author |-> "carol", Pulls |-> pulls]

RefsOnePull == Refs("base1", <<Pull1>>)
RefsNoPull == Refs("base1", <<>>)
RefsTwoPulls == Refs("base1", <<Pull1, Pull2>>)

PullNumbers == {Pull1.Number, Pull2.Number}
BaseSHAs == {"base1", "base2"}

\* a ProwJob: the fields of Spec, Status and Labels that the package reads
ProwJob(ctx, state, type, report, complete, refs, optional, onPost) ==
    [Context |-> ctx, State |-> state, Type |-> type, Report |-> report,
     Complete |-> complete, Refs |-> refs, Optional |-> optional,
     CommentOnPostsubmits |-> onPost,
     URL |-> <<"url">>, RerunCommand |-> <<"/test", " ", "x">>]

(***************************************************************************)
(* Status mapper.                                                          *)
(***************************************************************************)
\* a mapper that sends an aborted job to "error"
prowjobStateToGitHubStatusNoAborted(pjState) ==
    CASE pjState = TriggeredState -> [status |-> StatusPending, err |-> NoError]
      [] pjState = PendingState -> [status |-> StatusPending, err |-> NoError]
      [] pjState = SuccessState -> [status |-> StatusSuccess, err |-> NoError]
      [] pjState = ErrorState -> [status |-> StatusError, err |-> NoError]
      [] pjState = FailureState -> [status |-> StatusFailure, err |-> NoError]
      [] pjState = AbortedState -> [status |-> StatusError, err |-> NoError]
      [] OTHER -> [status |-> "", err |-> ErrUnknownState]

prowjobStateToGitHubStatus(pjState) ==
    CASE pjState = TriggeredState -> [status |-> StatusPending, err |-> NoError]
      [] pjState = PendingState -> [status |-> StatusPending, err |-> NoError]
      [] pjState = SuccessState -> [status |-> StatusSuccess, err |-> NoError]
      [] pjState = ErrorState -> [status |-> StatusError, err |-> NoError]
      [] pjState = FailureState -> [status |-> StatusFailure, err |-> NoError]
      [] pjState = AbortedState -> [status |-> StatusFailure, err |-> NoError]
      [] OTHER -> [status |-> "", err |-> ErrUnknownState]

\* the remote call that sets a commit status
CreateStatusCall(sha, state, ctx) ==
    [op |-> "CreateStatus", sha |-> sha, state |-> state, context |-> ctx]

\* a choice of commit that is always the base commit
statusSHABaseOnly(pj) == pj.Refs.BaseSHA

\* the commit a status is set on
statusSHA(pj) ==
    IF Len(pj.Refs.Pulls) > 0 /\ pj.Type # PostsubmitJob
    THEN pj.Refs.Pulls[1].SHA
    ELSE pj.Refs.BaseSHA

\* a reportStatus that sets the status "error" for an unknown state
reportStatusDefaultsToError(pj, remoteOK) ==
    IF pj.Report
    THEN LET st == prowjobStateToGitHubStatus(pj.State)
             s == IF st.err # NoError THEN StatusError ELSE st.status
         IN  [calls |-> <<CreateStatusCall(statusSHA(pj), s, pj.Context)>>,
              err |-> IF remoteOK THEN NoError ELSE ErrRemote("CreateStatus")]
    ELSE [calls |-> <<>>, err |-> NoError]

\* reportStatus: the calls it issues and the error it returns; remoteOK tells
\* whether the remote accepts the status call
reportStatus(pj, remoteOK) ==
    IF pj.Report
    THEN LET st == prowjobStateToGitHubStatus(pj.State)
         IN  IF st.err # NoError
             THEN [calls |-> <<>>, err |-> st.err]
             ELSE [calls |-> <<CreateStatusCall(statusSHA(pj), st.status, pj.Context)>>,
                   err |-> IF remoteOK THEN NoError ELSE ErrRemote("CreateStatus")]
    ELSE [calls |-> <<>>, err |-> NoError]

ShouldReport(pj, validTypes) ==
    LET valid == \E t \in validTypes : pj.Type = t
    IN  IF ~valid THEN FALSE
        ELSE IF ~pj.Report THEN FALSE
        ELSE TRUE

\* ReportStatusContext without the check on the number of pulls
reportStatusContextResultNoBatchCheck(ghc, pj, validTypes, remoteOK) ==
    IF ~ghc THEN [calls |-> <<>>, err |-> ErrNoClient]
    ELSE IF ~ShouldReport(pj, validTypes) THEN [calls |-> <<>>, err |-> NoError]
    ELSE LET r == reportStatus(pj, remoteOK)
         IN  IF r.err # NoError
             THEN [calls |-> r.calls, err |-> WrapError("error setting status", r.err)]
             ELSE [calls |-> r.calls, err |-> NoError]

\* ReportStatusContext: ghc is FALSE for a nil client
reportStatusContextResult(ghc, pj, validTypes, remoteOK) ==
    IF ~ghc THEN [calls |-> <<>>, err |-> ErrNoClient]
    ELSE IF ~ShouldReport(pj, validTypes) THEN [calls |-> <<>>, err |-> NoError]
    ELSE IF Len(pj.Refs.Pulls) > 1 THEN [calls |-> <<>>, err |-> NoError]
    ELSE LET r == reportStatus(pj, remoteOK)
         IN  IF r.err # NoError
             THEN [calls |-> r.calls, err |-> WrapError("error setting status", r.err)]
             ELSE [calls |-> r.calls, err |-> NoError]

(***************************************************************************)
(* Comment history parser and entry reconciler.                            *)
(* A comment is [ID, User, Body]; Body is a token sequence.                *)
(***************************************************************************)
BotLogin == "k8s-ci-robot"
HumanLogin == "dev"

\* the identity predicate BotUserCheckerWithContext returns
isBot(login) == login = BotLogin

\* a walk that a blank line does not stop
RECURSIVE scanLinesPastBlank(_, _, _)
scanLinesPastBlank(lines, tracking, entries) ==
    IF lines = <<>> THEN entries
    ELSE LET line == TrimSpace(Head(lines))
         IN  IF HasPrefix(line, Divider) THEN scanLinesPastBlank(Tail(lines), TRUE, entries)
             ELSE IF Len(line) = 0 THEN scanLinesPastBlank(Tail(lines), tracking, entries)
             ELSE IF tracking
             THEN scanLinesPastBlank(Tail(lines), tracking, Append(entries, line))
             ELSE scanLinesPastBlank(Tail(lines), tracking, entries)

\* the walk over the lines of one comment body
RECURSIVE scanLines(_, _, _)
scanLines(lines, tracking, entries) ==
    IF lines = <<>> THEN entries
    ELSE LET line == TrimSpace(Head(lines))
         IN  IF HasPrefix(line, Divider) THEN scanLines(Tail(lines), TRUE, entries)
             ELSE IF Len(line) = 0 THEN scanLines(Tail(lines), FALSE, entries)
             ELSE IF tracking THEN scanLines(Tail(lines), tracking, Append(entries, line))
             ELSE scanLines(Tail(lines), tracking, entries)

\* a first loop that does not ask who wrote a comment
RECURSIVE scanCommentsAnyAuthor(_, _)
scanCommentsAnyAuthor(ics, acc) ==
    IF ics = <<>> THEN acc
    ELSE LET ic == Head(ics)
         IN  IF ~Contains(ic.Body, <<commentTag>>) THEN scanCommentsAnyAuthor(Tail(ics), acc)
             ELSE scanCommentsAnyAuthor(Tail(ics),
                    [previousComments |->
                        IF acc.latestComment # 0
                        THEN Append(acc.previousComments, acc.latestComment)
                        ELSE acc.previousComments,
                     latestComment |-> ic.ID,
                     entries |-> scanLines(Split(ic.Body, <<NL>>), FALSE, acc.entries)])

\* the first loop of parseIssueComments, from accumulator acc on
RECURSIVE scanComments(_, _)
scanComments(ics, acc) ==
    IF ics = <<>> THEN acc
    ELSE LET ic == Head(ics)
         IN  IF ~isBot(ic.User) THEN scanComments(Tail(ics), acc)
             ELSE IF ~Contains(ic.Body, <<commentTag>>) THEN scanComments(Tail(ics), acc)
             ELSE scanComments(Tail(ics),
                    [previousComments |->
                        IF acc.latestComment # 0
                        THEN Append(acc.previousComments, acc.latestComment)
                        ELSE acc.previousComments,
                     latestComment |-> ic.ID,
                     entries |-> scanLines(Split(ic.Body, <<NL>>), FALSE, acc.entries)])

ScanStart == [previousComments |-> <<>>, latestComment |-> 0, entries |-> <<>>]

\* f[0] of strings.Split(entry, " | ")
entryKey(entry) == Split(entry, FieldSep)[1]

\* a keep decision that does not look at the batch
keepEntryIgnoresBatch(entries, pjs, i) ==
    ~\E j \in 1..Len(entries) :
        j # i /\ j > i /\ entryKey(entries[j]) = entryKey(entries[i])

\* a keep decision under which the first occurrence of a key wins
keepEntryFirstWins(entries, pjs, i) ==
    /\ ~\E j \in 1..Len(entries) :
          j # i /\ j < i /\ entryKey(entries[j]) = entryKey(entries[i])
    /\ ~\E k \in 1..Len(pjs) : pjs[k].Context = entryKey(entries[i])

\* the "keep" decision of the second loop for entries[i]
keepEntry(entries, pjs, i) ==
    /\ ~\E j \in 1..Len(entries) :
          j # i /\ j > i /\ entryKey(entries[j]) = entryKey(entries[i])
    /\ ~\E k \in 1..Len(pjs) : pjs[k].Context = entryKey(entries[i])

RECURSIVE keepEntriesFrom(_, _, _)
keepEntriesFrom(entries, pjs, i) ==
    IF i > Len(entries) THEN <<>>
    ELSE (IF keepEntry(entries, pjs, i) THEN <<entries[i]>> ELSE <<>>)
            \o keepEntriesFrom(entries, pjs, i + 1)

\* strconv.ParseBool on the optional label: "absent" stands for no label
ParseBoolTrue == {"1", "t", "T", "TRUE", "true", "True"}
ParseBoolFalse == {"0", "f", "F", "FALSE", "false", "False"}

\* a row whose "required" field repeats the label instead of negating it
requiredFieldNotNegated(pj) ==
    IF pj.Type = PresubmitJob /\ pj.Optional # "absent"
       /\ pj.Optional \in ParseBoolTrue \cup ParseBoolFalse
    THEN (IF pj.Optional \in ParseBoolTrue THEN "true" ELSE "false")
    ELSE "unknown"

requiredField(pj) ==
    IF pj.Type = PresubmitJob /\ pj.Optional # "absent"
       /\ pj.Optional \in ParseBoolTrue \cup ParseBoolFalse
    THEN (IF pj.Optional \in ParseBoolTrue THEN "false" ELSE "true")
    ELSE "unknown"

\* the character that quotes the rerun command in a row
BackTick == "BQ"

createEntry(pj) ==
    IF pj.Type = PostsubmitJob
    THEN Join(<<pj.Context,
                <<pj.Refs.BaseSHA>>,
                <<"[link](">> \o pj.URL \o <<")">> >>, FieldSep)
    ELSE Join(<<pj.Context,
                <<pj.Refs.Pulls[1].SHA>>,
                <<"[link](">> \o pj.URL \o <<")">>,
                <<requiredField(pj)>>,
                <<BackTick>> \o pj.RerunCommand \o <<BackTick>> >>, FieldSep)

\* a third loop that also gives a fresh row to a job whose state is "error"
RECURSIVE appendFailuresAndErrors(_, _, _)
appendFailuresAndErrors(pjs, newEntries, createNewComment) ==
    IF pjs = <<>> THEN [newEntries |-> newEntries, createNewComment |-> createNewComment]
    ELSE IF Head(pjs).State \in {StatusFailure, StatusError}
         THEN appendFailuresAndErrors(Tail(pjs), Append(newEntries, createEntry(Head(pjs))),
                                      TRUE)
         ELSE appendFailuresAndErrors(Tail(pjs), newEntries, createNewComment)

\* the third loop: a fresh row for every job whose state is "failure"
RECURSIVE appendFailures(_, _, _)
appendFailures(pjs, newEntries, createNewComment) ==
    IF pjs = <<>> THEN [newEntries |-> newEntries, createNewComment |-> createNewComment]
    ELSE IF Head(pjs).State = StatusFailure
         THEN appendFailures(Tail(pjs), Append(newEntries, createEntry(Head(pjs))), TRUE)
         ELSE appendFailures(Tail(pjs), newEntries, createNewComment)

\* an end of parseIssueComments that leaves the earlier comments in place
parseResultKeepsPrevious(scan, app) ==
    IF (app.createNewComment \/ Len(app.newEntries) = 0) /\ scan.latestComment # 0
    THEN [deletes |-> <<scan.latestComment>>,
          entries |-> app.newEntries,
          updateID |-> 0,
          createNewComment |-> app.createNewComment]
    ELSE [deletes |-> <<>>,
          entries |-> app.newEntries,
          updateID |-> scan.latestComment,
          createNewComment |-> app.createNewComment]

\* an end of parseIssueComments that deletes the latest comment only for a fresh
\* failure, not for an empty entry list
parseResultKeepsLatestWhenEmpty(scan, app) ==
    IF app.createNewComment /\ scan.latestComment # 0
    THEN [deletes |-> Append(scan.previousComments, scan.latestComment),
          entries |-> app.newEntries,
          updateID |-> 0,
          createNewComment |-> app.createNewComment]
    ELSE [deletes |-> scan.previousComments,
          entries |-> app.newEntries,
          updateID |-> scan.latestComment,
          createNewComment |-> app.createNewComment]

\* an end of parseIssueComments that deletes the latest comment only for an
\* empty entry list, not for a fresh failure
parseResultEditsOnFailure(scan, app) ==
    IF Len(app.newEntries) = 0 /\ scan.latestComment # 0
    THEN [deletes |-> Append(scan.previousComments, scan.latestComment),
          entries |-> app.newEntries,
          updateID |-> 0,
          createNewComment |-> app.createNewComment]
    ELSE [deletes |-> scan.previousComments,
          entries |-> app.newEntries,
          updateID |-> scan.latestComment,
          createNewComment |-> app.createNewComment]

\* an end of parseIssueComments that always deletes the latest comment
parseResultAlwaysCreates(scan, app) ==
    IF scan.latestComment # 0
    THEN [deletes |-> Append(scan.previousComments, scan.latestComment),
          entries |-> app.newEntries,
          updateID |-> 0,
          createNewComment |-> app.createNewComment]
    ELSE [deletes |-> scan.previousComments,
          entries |-> app.newEntries,
          updateID |-> scan.latestComment,
          createNewComment |-> app.createNewComment]

\* an end of parseIssueComments that stages the latest comment for deletion and
\* still returns it as update target
parseResultDeletesUpdateTarget(scan, app) ==
    IF (app.createNewComment \/ Len(app.newEntries) = 0) /\ scan.latestComment # 0
    THEN [deletes |-> Append(scan.previousComments, scan.latestComment),
          entries |-> app.newEntries,
          updateID |-> 0,
          createNewComment |-> app.createNewComment]
    ELSE [deletes |-> IF scan.latestComment # 0
                      THEN Append(scan.previousComments, scan.latestComment)
                      ELSE scan.previousComments,
          entries |-> app.newEntries,
          updateID |-> scan.latestComment,
          createNewComment |-> app.createNewComment]

\* the end of parseIssueComments, from the scan and the result of the third loop;
\* createNewComment is the value of the local flag when the function returns
parseResult(scan, app) ==
    IF (app.createNewComment \/ Len(app.newEntries) = 0) /\ scan.latestComment # 0
    THEN [deletes |-> Append(scan.previousComments, scan.latestComment),
          entries |-> app.newEntries,
          updateID |-> 0,
          createNewComment |-> app.createNewComment]
    ELSE [deletes |-> scan.previousComments,
          entries |-> app.newEntries,
          updateID |-> scan.latestComment,
          createNewComment |-> app.createNewComment]

\* parseIssueComments once the comments are scanned
parseScanned(pjs, scan) ==
    parseResult(scan, appendFailures(pjs, keepEntriesFrom(scan.entries, pjs, 1), FALSE))

parseIssueComments(pjs, ics) == parseScanned(pjs, scanComments(ics, ScanStart))

(***************************************************************************)
(* Comment renderer.  reportTemplate is nil (no template), context (a      *)
(* template that prints the context of the job), broken (a template whose  *)
(* execution fails on every job) or brokenOnPostsubmit (a template that    *)
(* prints the context of a pre-merge job and fails on a postsubmit job).   *)
(***************************************************************************)
ReportTemplates == {"nil", "context", "broken", "brokenOnPostsubmit"}

TemplateError == <<"template: can't evaluate field">>

\* a template run on the last job of the batch instead of the first
executeTemplateOnLast(reportTemplate, pjs) ==
    IF reportTemplate = "broken"
         \/ (reportTemplate = "brokenOnPostsubmit" /\ pjs[Len(pjs)].Type = PostsubmitJob)
    THEN [out |-> <<>>, err |-> TemplateError]
    ELSE [out |-> <<"report for", " ">> \o pjs[Len(pjs)].Context, err |-> NoError]

\* reportTemplate.Execute(&b, &pjs[0])
executeTemplate(reportTemplate, pjs) ==
    IF reportTemplate = "broken"
         \/ (reportTemplate = "brokenOnPostsubmit" /\ pjs[1].Type = PostsubmitJob)
    THEN [out |-> <<>>, err |-> TemplateError]
    ELSE [out |-> <<"report for", " ">> \o pjs[1].Context, err |-> NoError]

AboutThisBot == "Instructions for interacting with me using PR comments are available."

commentAuthor(pjs) ==
    IF pjs[1].Type = PostsubmitJob THEN pjs[1].Refs.Author ELSE pjs[1].Refs.Pulls[1].Author

\* a header that takes every batch for a pre-merge batch
commentHeaderFiveColumns(pjs, plural) ==
    << <<"@", pjs[1].Refs.Pulls[1].Author, ": The following test">> \o plural
            \o <<" **failed**, say /retest to rerun all failed tests or /retest-required to rerun all mandatory failed tests:">>,
       <<>>,
       <<"Test name", " ", "|", " ", "Commit", " ", "|", " ", "Details", " ", "|", " ",
         "Required", " ", "|", " ", "Rerun command">>,
       Join(<<Divider, Divider, Divider, Divider, Divider>>, FieldSep) >>

commentHeader(pjs, plural) ==
    IF pjs[1].Type = PostsubmitJob
    THEN << <<"@", pjs[1].Refs.Author, ": The following test">> \o plural
                \o <<" **failed**:">>,
            <<>>,
            <<"Test name", " ", "|", " ", "Commit", " ", "|", " ", "Details">>,
            Join(<<Divider, Divider, Divider>>, FieldSep) >>
    ELSE << <<"@", pjs[1].Refs.Pulls[1].Author, ": The following test">> \o plural
                \o <<" **failed**, say /retest to rerun all failed tests or /retest-required to rerun all mandatory failed tests:">>,
            <<>>,
            <<"Test name", " ", "|", " ", "Commit", " ", "|", " ", "Details", " ", "|", " ",
              "Required", " ", "|", " ", "Rerun command">>,
            Join(<<Divider, Divider, Divider, Divider, Divider>>, FieldSep) >>

\* a renderer that keeps the table header when there is no entry
createCommentAlwaysTable(reportTemplate, pjs, entries) ==
    IF Len(pjs) = 0 THEN [comment |-> <<>>, err |-> NoError]
    ELSE LET plural == IF Len(entries) > 1 THEN <<"s">> ELSE <<>>
             b == IF reportTemplate # "nil"
                  THEN executeTemplate(reportTemplate, pjs)
                  ELSE [out |-> <<>>, err |-> NoError]
             lines == commentHeader(pjs, plural) \o entries
                        \o (IF reportTemplate # "nil" THEN << <<>>, b.out >> ELSE <<>>)
                        \o << <<>>, <<"<details>">>, <<>>, <<AboutThisBot>>,
                              <<"</details>">>, <<commentTag>> >>
         IN  IF b.err # NoError THEN [comment |-> <<>>, err |-> b.err]
             ELSE [comment |-> Join(lines, <<NL>>), err |-> NoError]

\* a renderer that puts the marker first
createCommentTagFirst(reportTemplate, pjs, entries) ==
    IF Len(pjs) = 0 THEN [comment |-> <<>>, err |-> NoError]
    ELSE LET plural == IF Len(entries) > 1 THEN <<"s">> ELSE <<>>
             b == IF reportTemplate # "nil"
                  THEN executeTemplate(reportTemplate, pjs)
                  ELSE [out |-> <<>>, err |-> NoError]
             head == IF Len(entries) = 0
                     THEN << <<"@", commentAuthor(pjs), ": all tests **passed!**">>, <<>> >>
                     ELSE commentHeader(pjs, plural)
             lines == << <<commentTag>> >> \o head \o entries
                        \o (IF reportTemplate # "nil" THEN << <<>>, b.out >> ELSE <<>>)
                        \o << <<>>, <<"<details>">>, <<>>, <<AboutThisBot>>,
                              <<"</details>">> >>
         IN  IF b.err # NoError THEN [comment |-> <<>>, err |-> b.err]
             ELSE [comment |-> Join(lines, <<NL>>), err |-> NoError]

createComment(reportTemplate, pjs, entries) ==
    IF Len(pjs) = 0 THEN [comment |-> <<>>, err |-> NoError]
    ELSE LET plural == IF Len(entries) > 1 THEN <<"s">> ELSE <<>>
             b == IF reportTemplate # "nil"
                  THEN executeTemplate(reportTemplate, pjs)
                  ELSE [out |-> <<>>, err |-> NoError]
             head == IF Len(entries) = 0
                     THEN << <<"@", commentAuthor(pjs), ": all tests **passed!**">>, <<>> >>
                     ELSE commentHeader(pjs, plural)
             lines == head \o entries
                        \o (IF reportTemplate # "nil" THEN << <<>>, b.out >> ELSE <<>>)
                        \o << <<>>, <<"<details>">>, <<>>, <<AboutThisBot>>,
                              <<"</details>">>, <<commentTag>> >>
         IN  IF b.err # NoError THEN [comment |-> <<>>, err |-> b.err]
             ELSE [comment |-> Join(lines, <<NL>>), err |-> NoError]

(***************************************************************************)
(* The remote store: issue comments per pull, commit comments per commit,  *)
(* and the identifier the host gives the next created comment.  Comments   *)
(* the synchronizer creates are authored by the bot.                       *)
(***************************************************************************)
Remote(issue, commit, next) == [issue |-> issue, commit |-> commit, next |-> next]

remoteCreateComment(G, number, body) ==
    [G EXCEPT !.issue[number] = Append(@, [ID |-> G.next, User |-> BotLogin, Body |-> body]),
              !.next = @ + 1]

remoteCreateCommitComment(G, sha, body) ==
    [G EXCEPT !.commit[sha] = Append(@, [ID |-> G.next, User |-> BotLogin, Body |-> body]),
              !.next = @ + 1]

\* deleting an issue comment by identifier; an identifier that names no issue
\* comment deletes nothing
remoteDeleteComment(G, id) ==
    [G EXCEPT !.issue = [n \in DOMAIN G.issue |->
                            SelectSeq(G.issue[n], LAMBDA c : c.ID # id)]]

remoteHasIssueComment(G, id) ==
    \E n \in DOMAIN G.issue : \E i \in 1..Len(G.issue[n]) : G.issue[n][i].ID = id

remoteEditComment(G, id, body) ==
    [G EXCEPT !.issue = [n \in DOMAIN G.issue |->
                            [i \in 1..Len(G.issue[n]) |->
                                IF G.issue[n][i].ID = id
                                THEN [G.issue[n][i] EXCEPT !.Body = body]
                                ELSE G.issue[n][i]]]]

RECURSIVE remoteDeleteAll(_, _)
remoteDeleteAll(G, ids) ==
    IF ids = <<>> THEN G ELSE remoteDeleteAll(remoteDeleteComment(G, Head(ids)), Tail(ids))

\* the remote calls, as logged
ListIssueCommentsCall(number) == [op |-> "ListIssueComments", number |-> number]
ListCommitCommentsCall(sha) == [op |-> "ListCommitComments", sha |-> sha]
BotUserCheckerCall == [op |-> "BotUserChecker"]
DeleteCommentCall(id) == [op |-> "DeleteComment", id |-> id]
CreateCommentCall(number, body) == [op |-> "CreateComment", number |-> number, body |-> body]
CreateCommitCommentCall(sha, body) == [op |-> "CreateCommitComment", sha |-> sha, body |-> body]
EditCommentCall(id, body) == [op |-> "EditComment", id |-> id, body |-> body]

\* what a run has done so far: the store it leaves, the calls it issued, the
\* error it returns and the results of its calls of parseIssueComments
Outcome(G, cs, e, ps) == [G |-> G, calls |-> cs, err |-> e, parsed |-> ps]

(***************************************************************************)
(* The synchronizer.                                                       *)
(***************************************************************************)
\* a condition under which a comment is always posted
commentNeededAlways(entries, mustComment) == TRUE

\* the condition under which createOrUpdateComments posts a comment
commentNeeded(entries, mustComment) == Len(entries) > 0 \/ mustComment

\* the part of createOrUpdateComments after the comments are listed and the bot
\* identity is known: parse, delete, then create or edit
reconcileComments(G, reportTemplate, pjs, mustComment, comments, p) ==
    LET refs == pjs[1].Refs
        isPostsubmit == pjs[1].Type = PostsubmitJob
        listCall == IF isPostsubmit THEN ListCommitCommentsCall(refs.BaseSHA)
                    ELSE ListIssueCommentsCall(refs.Pulls[1].Number)
        Finish(G1, cs1, record, c) ==
            IF ~commentNeeded(p.entries, mustComment)
            THEN Outcome(G1, cs1, NoError, record)
            ELSE IF c.err # NoError
            THEN Outcome(G1, cs1, WrapError("generating comment", c.err), record)
            ELSE IF p.updateID = 0
            THEN IF isPostsubmit
                 THEN Outcome(remoteCreateCommitComment(G1, refs.BaseSHA, c.comment),
                              Append(cs1, CreateCommitCommentCall(refs.BaseSHA, c.comment)),
                              NoError, record)
                 ELSE Outcome(remoteCreateComment(G1, refs.Pulls[1].Number, c.comment),
                              Append(cs1, CreateCommentCall(refs.Pulls[1].Number, c.comment)),
                              NoError, record)
            ELSE IF remoteHasIssueComment(G1, p.updateID)
            THEN Outcome(remoteEditComment(G1, p.updateID, c.comment),
                         Append(cs1, EditCommentCall(p.updateID, c.comment)),
                         NoError, record)
            ELSE Outcome(G1, Append(cs1, EditCommentCall(p.updateID, c.comment)),
                         WrapError("error updating comment", ErrRemote("EditComment")),
                         record)
    IN  Finish(remoteDeleteAll(G, p.deletes),
               <<listCall, BotUserCheckerCall>>
                   \o [i \in 1..Len(p.deletes) |-> DeleteCommentCall(p.deletes[i])],
               << [unit |-> IF isPostsubmit THEN <<"commit", refs.BaseSHA>>
                            ELSE <<"issue", refs.Pulls[1].Number>>,
                   deletes |-> p.deletes, entries |-> p.entries,
                   updateID |-> p.updateID] >>,
               createComment(reportTemplate, pjs, p.entries))

\* a listing that reads the comments of pull 1 whatever the batch refers to
listedCommentsOfPull1(G, pjs) == G.issue[Pull1.Number]

\* the comments createOrUpdateComments lists: the commit comments of the base
\* commit for a postsubmit, the issue comments of the first pull otherwise
listedComments(G, pjs) ==
    IF pjs[1].Type = PostsubmitJob THEN G.commit[pjs[1].Refs.BaseSHA]
    ELSE G.issue[pjs[1].Refs.Pulls[1].Number]

createOrUpdateComments(G, reportTemplate, pjs, mustComment) ==
    IF pjs[1].Type # PostsubmitJob /\ Len(pjs[1].Refs.Pulls) = 0
    THEN Outcome(G, <<>>, NoError, <<>>)
    ELSE reconcileComments(G, reportTemplate, pjs, mustComment, listedComments(G, pjs),
                           parseIssueComments(pjs, listedComments(G, pjs)))

\* a search that never finds the comment
issueHasCommentNever(G, number, comment) == FALSE

issueHasComment(G, number, comment) ==
    \E i \in 1..Len(G.issue[number]) :
        isBot(G.issue[number][i].User) /\ Contains(G.issue[number][i].Body, comment)

\* a selection that keeps jobs that are not complete
takesPartIgnoresComplete(pj, validTypes) == ShouldReport(pj, validTypes)

\* the jobs ReportComment keeps: report-eligible and complete
takesPart(pj, validTypes) == ShouldReport(pj, validTypes) /\ pj.Complete

\* the one-time note on the pull of a postsubmit batch, after outcome o
dropNote(o, postsubmitPjs) ==
    IF Len(postsubmitPjs) = 0 THEN o
    ELSE LET refs == postsubmitPjs[1].Refs
         IN  IF Len(refs.Pulls) = 0 THEN o
             ELSE LET number == refs.Pulls[1].Number
                      cs == o.calls \o <<BotUserCheckerCall, ListIssueCommentsCall(number)>>
                      note == <<prCommitNote, " ", refs.BaseSHA, NL>>
                  IN  IF issueHasComment(o.G, number, <<prCommitNote>>)
                      THEN Outcome(o.G, cs, NoError, o.parsed)
                      ELSE Outcome(remoteCreateComment(o.G, number, note),
                                   Append(cs, CreateCommentCall(number, note)),
                                   NoError, o.parsed)

\* joins the outcome r of a later step to the outcome o of the steps before it
joinOutcomes(o, r) == Outcome(r.G, o.calls \o r.calls, r.err, o.parsed \o r.parsed)

\* createOrUpdateComments on one of the two batches, after outcome o
thenComments(o, reportTemplate, pjs, mustCreate) ==
    IF o.err # NoError \/ Len(pjs) = 0 THEN o
    ELSE joinOutcomes(o, createOrUpdateComments(o.G, reportTemplate, pjs, mustCreate))

\* the note step, unless the run has failed
thenNote(o, postsubmitPjs) == IF o.err # NoError THEN o ELSE dropNote(o, postsubmitPjs)

\* ReportComment once the batch is split in two
reportSplit(G, reportTemplate, presubmitPjs, postsubmitPjs, mustCreate) ==
    thenNote(thenComments(thenComments(Outcome(G, <<>>, NoError, <<>>),
                                       reportTemplate, presubmitPjs, mustCreate),
                          reportTemplate, postsubmitPjs, mustCreate),
             postsubmitPjs)

\* a ReportComment that does not look at the client
ReportCommentResultNoClientCheck(G, ghc, reportTemplate, pjs, validTypes, mustCreate) ==
    reportSplit(G, reportTemplate,
                SelectSeq(pjs, LAMBDA pj : takesPart(pj, validTypes) /\ pj.Type # PostsubmitJob),
                SelectSeq(pjs, LAMBDA pj : takesPart(pj, validTypes) /\ pj.Type = PostsubmitJob
                                               /\ pj.CommentOnPostsubmits),
                mustCreate)

\* a ReportComment that comments for every post-merge job, whatever its
\* reporter config
ReportCommentResultIgnoresConfig(G, ghc, reportTemplate, pjs, validTypes, mustCreate) ==
    IF ~ghc THEN Outcome(G, <<>>, ErrNoClient, <<>>)
    ELSE reportSplit(G, reportTemplate,
                     SelectSeq(pjs, LAMBDA pj : takesPart(pj, validTypes)
                                                    /\ pj.Type # PostsubmitJob),
                     SelectSeq(pjs, LAMBDA pj : takesPart(pj, validTypes)
                                                    /\ pj.Type = PostsubmitJob),
                     mustCreate)

ReportCommentResult(G, ghc, reportTemplate, pjs, validTypes, mustCreate) ==
    IF ~ghc THEN Outcome(G, <<>>, ErrNoClient, <<>>)
    ELSE reportSplit(G, reportTemplate,
                     SelectSeq(pjs, LAMBDA pj : takesPart(pj, validTypes)
                                                    /\ pj.Type # PostsubmitJob),
                     SelectSeq(pjs, LAMBDA pj : takesPart(pj, validTypes)
                                                    /\ pj.Type = PostsubmitJob
                                                    /\ pj.CommentOnPostsubmits),
                     mustCreate)

(***************************************************************************)
(* State shared by every specification: the remote store is empty, no      *)
(* operation has run.                                                      *)
(***************************************************************************)
FirstNewID == 100

NoRun == [op |-> "none", n |-> 0]
NoPrev == [valid |-> FALSE]

InitRemote ==
    /\ issueComments = [n \in PullNumbers |-> <<>>]
    /\ commitComments = [s \in BaseSHAs |-> <<>>]
    /\ nextID = FirstNewID

(***************************************************************************)
(* SpecStatus: the status mapper and the status side of the synchronizer.  *)
(* The initial state draws the arguments (a job, the caller's allowed      *)
(* kinds, whether there is a client, whether the remote accepts the call); *)
(* each action applies one function to them.                               *)
(***************************************************************************)
UnknownState == "bogus"

StatusJobs ==
    {ProwJob(<<"bla">>, s, t, r, TRUE, refs, "absent", FALSE) :
        s \in KnownStates \cup {UnknownState}, t \in JobTypes, r \in BOOLEAN,
        refs \in {RefsOnePull, RefsNoPull, RefsTwoPulls}}

ValidTypeSets == SUBSET {PresubmitJob, PostsubmitJob}

InitStatus ==
    /\ InitRemote
    /\ calls = <<>>
    /\ err = NoError
    /\ parsed = <<>>
    /\ prev = NoPrev
    /\ run \in [op : {"input"}, ghc : BOOLEAN, pj : StatusJobs,
                validTypes : ValidTypeSets, remoteOK : BOOLEAN, status : {""}]

CallMapStatus ==
    /\ run.op = "input"
    /\ LET r == prowjobStateToGitHubStatus(run.pj.State)
       IN  /\ run' = [run EXCEPT !.op = "prowjobStateToGitHubStatus", !.status = r.status]
           /\ err' = r.err
           /\ calls' = <<>>
    /\ UNCHANGED <<issueComments, commitComments, nextID, parsed, prev>>

CallReportStatus ==
    /\ run.op = "input"
    /\ LET r == reportStatus(run.pj, run.remoteOK)
       IN  /\ run' = [run EXCEPT !.op = "reportStatus"]
           /\ err' = r.err
           /\ calls' = r.calls
    /\ UNCHANGED <<issueComments, commitComments, nextID, parsed, prev>>

CallReportStatusContext ==
    /\ run.op = "input"
    /\ LET r == reportStatusContextResult(run.ghc, run.pj, run.validTypes, run.remoteOK)
       IN  /\ run' = [run EXCEPT !.op = "ReportStatusContext"]
           /\ err' = r.err
           /\ calls' = r.calls
    /\ UNCHANGED <<issueComments, commitComments, nextID, parsed, prev>>

NextStatus == CallMapStatus \/ CallReportStatus \/ CallReportStatusContext

SpecStatus == InitStatus /\ [][NextStatus]_vars

(***************************************************************************)
(* Inputs of the comment side: comment histories and job batches.          *)
(***************************************************************************)
Row(key, value) == key \o FieldSep \o value

CtxBla == <<"bla">>
CtxFoo == <<"foo">>
\* a context that holds the field delimiter of the report table
CtxPiped == <<"a", " ", "|", " ", "b">>

\* bodies of comments found on a review unit before the first run
BodyBlaFoo ==
    Join(<<Join(<<Divider, Divider>>, FieldSep), Row(CtxBla, <<"v1">>), Row(CtxFoo, <<"v1">>),
           <<>>, <<commentTag>> >>, <<NL>>)
BodyFoo ==
    Join(<<Join(<<Divider, Divider>>, FieldSep) \o <<"\r">>, Row(CtxFoo, <<"v2">>) \o <<"\r">>,
           <<"\r">>, <<commentTag>> >>, <<NL>>)
BodyUnmarked ==
    Join(<<Join(<<Divider, Divider>>, FieldSep), Row(CtxFoo, <<"v3">>), <<>> >>, <<NL>>)

HistoryBodies == {BodyBlaFoo, BodyFoo, BodyUnmarked}
Logins == {BotLogin, HumanLogin}

\* the i-th comment of a history gets identifier FirstOldID + i, except that the
\* comment at position zeroAt (if any) has identifier 0
FirstOldID == 10

Histories ==
    UNION {
      { [i \in 1..n |-> [ID |-> IF i = zeroAt THEN 0 ELSE FirstOldID + i,
                         User |-> us[i], Body |-> bs[i]]] :
          us \in [1..n -> Logins], bs \in [1..n -> HistoryBodies], zeroAt \in {0, 1, n} }
      : n \in 0..MaxHist }

PreJob(ctx, state) == ProwJob(ctx, state, PresubmitJob, TRUE, TRUE, RefsOnePull, "absent", FALSE)

\* pre-merge jobs that are complete and to be reported
NominalJobs ==
    {PreJob(CtxBla, st) : st \in KnownStates}
        \cup {PreJob(CtxFoo, SuccessState), PreJob(CtxFoo, FailureState),
              PreJob(CtxPiped, FailureState)}

\* the first job of a batch handed to ReportComment: a passing, a failing and an
\* unfinished pre-merge job, a failing job whose context holds the delimiter,
\* and a failing post-merge job that comments
FirstJobs ==
    { PreJob(CtxBla, SuccessState), PreJob(CtxBla, FailureState),
      PreJob(CtxPiped, FailureState),
      ProwJob(CtxBla, PendingState, PresubmitJob, TRUE, FALSE, RefsOnePull, "absent", FALSE),
      ProwJob(CtxBla, FailureState, PostsubmitJob, TRUE, TRUE, RefsOnePull, "absent", TRUE) }

LaterJobs == {PreJob(CtxFoo, SuccessState), PreJob(CtxFoo, FailureState)}

Batches ==
    { b \in UNION {[1..n -> FirstJobs \cup LaterJobs] : n \in 1..MaxBatch} :
        /\ b[1] \in FirstJobs
        /\ \A i \in 2..Len(b) : b[i] \in LaterJobs }

\* the job kinds the reporter is configured to report
JobTypesToReport == {PresubmitJob, PostsubmitJob}

(***************************************************************************)
(* SpecParse: parseIssueComments applied to every history and every batch  *)
(* of nominal jobs.                                                        *)
(***************************************************************************)
ParseBatches == UNION {[1..n -> NominalJobs] : n \in 0..MaxBatch}

InitParse ==
    /\ InitRemote
    /\ calls = <<>>
    /\ err = NoError
    /\ parsed = <<>>
    /\ prev = NoPrev
    /\ run \in [op : {"input"}, pjs : ParseBatches, ics : Histories]

CallParseIssueComments ==
    /\ run.op = "input"
    /\ LET p == parseIssueComments(run.pjs, run.ics)
       IN  parsed' = << [unit |-> <<"issue", Pull1.Number>>, pjs |-> run.pjs, ics |-> run.ics,
                         deletes |-> p.deletes, entries |-> p.entries,
                         updateID |-> p.updateID,
                         createNewComment |-> p.createNewComment] >>
    /\ run' = [run EXCEPT !.op = "parseIssueComments"]
    /\ UNCHANGED <<issueComments, commitComments, nextID, calls, err, prev>>

NextParse == CallParseIssueComments

SpecParse == InitParse /\ [][NextParse]_vars

(***************************************************************************)
(* Spec: serial runs of ReportComment against the remote store of one      *)
(* repository.  Pull 1 starts with an arbitrary comment history.  A batch  *)
(* may be delivered again (ReportCommentAgain).                            *)
(***************************************************************************)
Init ==
    /\ issueComments \in {[n \in PullNumbers |-> IF n = Pull1.Number THEN h ELSE <<>>] :
                            h \in Histories}
    /\ commitComments = [s \in BaseSHAs |-> <<>>]
    /\ nextID = FirstNewID
    /\ calls = <<>>
    /\ err = NoError
    /\ run = NoRun
    /\ parsed = <<>>
    /\ prev = NoPrev

\* a comment the parser treats as a report of the synchronizer
OwnMarked(c) == isBot(c.User) /\ Contains(c.Body, <<commentTag>>)

\* how many comments of a list are own+marked
OwnMarkedCount(comments) == Len(SelectSeq(comments, OwnMarked))

\* the places of a store part (comments per pull, or per commit) that hold an
\* own+marked comment
OwnMarkedAt(part) ==
    {p \in UNION {{u} \X (1..Len(part[u])) : u \in DOMAIN part} : OwnMarked(part[p[1]][p[2]])}

\* the bodies of the own+marked comments of the store, as a multiset
OwnMarkedBodies(issue, commit) ==
    LET bodies == {issue[p[1]][p[2]].Body : p \in OwnMarkedAt(issue)}
                    \cup {commit[p[1]][p[2]].Body : p \in OwnMarkedAt(commit)}
    IN  [b \in bodies |->
            Cardinality({p \in OwnMarkedAt(issue) : issue[p[1]][p[2]].Body = b})
              + Cardinality({p \in OwnMarkedAt(commit) : commit[p[1]][p[2]].Body = b})]

\* the effect of one run on the state
Deliver(op, pjs, reportTemplate, mustCreate) ==
    \E o \in {ReportCommentResult(Remote(issueComments, commitComments, nextID), TRUE,
                                  reportTemplate, pjs, JobTypesToReport, mustCreate)} :
        /\ issueComments' = o.G.issue
        /\ commitComments' = o.G.commit
        /\ nextID' = o.G.next
        /\ calls' = o.calls
        /\ err' = o.err
        /\ parsed' = o.parsed
        /\ run' = [op |-> op, n |-> run.n + 1, pjs |-> pjs,
                   reportTemplate |-> reportTemplate, mustCreate |-> mustCreate]

ReportComment ==
    /\ run.n < MaxRuns
    /\ \E pjs \in Batches, mustCreate \in BOOLEAN :
        /\ Deliver("ReportComment", pjs, "nil", mustCreate)
        /\ prev' = NoPrev

ReportCommentAgain ==
    /\ run.n < MaxRuns
    /\ run.op \in {"ReportComment", "ReportCommentAgain"}
    /\ Deliver("ReportCommentAgain", run.pjs, run.reportTemplate, run.mustCreate)
    /\ prev' = [valid |-> TRUE, err |-> err,
                bodies |-> OwnMarkedBodies(issueComments, commitComments)]

Next == ReportComment \/ ReportCommentAgain

Spec == Init /\ [][Next]_vars

(***************************************************************************)
(* Claims about the status mapper and status reporting (SpecStatus).       *)
(***************************************************************************)
\* the host status the specification gives for each known outcome
SpecifiedStatus(s) ==
    CASE s = TriggeredState -> "pending"
      [] s = PendingState -> "pending"
      [] s = SuccessState -> "success"
      [] s = ErrorState -> "error"
      [] s = FailureState -> "failure"
      [] s = AbortedState -> "failure"

\* C4: prowjobStateToGitHubStatus maps each of the six outcomes, without error,
\* to Triggered->pending, Pending->pending, Success->success, Error->error,
\* Failure->failure, Aborted->failure.
C4_StatusMapping ==
    (run.op = "prowjobStateToGitHubStatus" /\ run.pj.State \in KnownStates)
        => (err = NoError /\ run.status = SpecifiedStatus(run.pj.State))

C4_Witness ==
    /\ run.op = "prowjobStateToGitHubStatus"
    /\ run.pj.State = AbortedState
    /\ run.status = "failure"

\* whether the last operation was status reporting that got as far as mapping
\* the outcome of a report-eligible job
ReachedMapping ==
    \/ (run.op = "reportStatus" /\ run.pj.Report)
    \/ /\ run.op = "ReportStatusContext"
       /\ run.ghc
       /\ run.pj.Report
       /\ run.pj.Type \in run.validTypes
       /\ Len(run.pj.Refs.Pulls) <= 1

\* C5: for a report-eligible job whose outcome is none of the six known states,
\* status reporting returns the unknown-state error and issues no status call.
C5_UnknownStateNoCall ==
    (ReachedMapping /\ run.pj.State \notin KnownStates)
        => /\ calls = <<>>
           /\ err # NoError
           /\ err[Len(err)] = ErrUnknownState[1]

C5_Witness ==
    /\ run.op = "ReportStatusContext"
    /\ ReachedMapping
    /\ run.pj.State = UnknownState
    /\ err = WrapError("error setting status", ErrUnknownState)

\* C6: with a client, ReportStatusContext issues no status call and returns no
\* error when the report flag is false, the kind is not in the allowed set, or the
\* refs carry more than one pull; otherwise, for a known outcome, it issues exactly
\* one status call.  ShouldReport is true exactly when the kind is allowed and the
\* report flag is set.
C6_Skipped ==
    \/ ~run.pj.Report
    \/ run.pj.Type \notin run.validTypes
    \/ Len(run.pj.Refs.Pulls) > 1

C6_StatusSkipRules ==
    (run.op = "ReportStatusContext" /\ run.ghc)
        => /\ C6_Skipped => (calls = <<>> /\ err = NoError)
           /\ (~C6_Skipped /\ run.pj.State \in KnownStates)
                => (Len(calls) = 1 /\ calls[1].op = "CreateStatus")
           /\ ShouldReport(run.pj, run.validTypes)
                <=> (run.pj.Type \in run.validTypes /\ run.pj.Report)

C6_Witness ==
    /\ run.op = "ReportStatusContext"
    /\ run.ghc
    /\ run.pj.Report
    /\ run.pj.Type \in run.validTypes
    /\ Len(run.pj.Refs.Pulls) = 2
    /\ run.pj.State = FailureState
    /\ calls = <<>>
    /\ err = NoError

\* C7: the status is set on the head commit of the first pull when the job is not
\* a postsubmit and has at least one pull, and on the base commit otherwise.
C7_StatusCommit ==
    (run.op \in {"reportStatus", "ReportStatusContext"} /\ calls # <<>>)
        => calls[1].sha =
             IF run.pj.Type # PostsubmitJob /\ Len(run.pj.Refs.Pulls) >= 1
             THEN run.pj.Refs.Pulls[1].SHA
             ELSE run.pj.Refs.BaseSHA

C7_Witness ==
    /\ run.op = "reportStatus"
    /\ run.pj.Type = PresubmitJob
    /\ Len(run.pj.Refs.Pulls) = 2
    /\ calls # <<>>
    /\ calls[1].sha = Pull1.SHA

(***************************************************************************)
(* Claims about parseIssueComments (SpecParse).                            *)
(***************************************************************************)
JustParsed == run.op = "parseIssueComments"

\* the contexts of the jobs of a batch
BatchContexts(pjs) == {pjs[k].Context : k \in 1..Len(pjs)}

\* the jobs of a batch whose outcome is Failure, in batch order
FailedJobs(pjs) == SelectSeq(pjs, LAMBDA pj : pj.State = FailureState)

\* the rows scanned from the own+marked comments of a history, in scan order
HistoricalEntries(ics) == scanComments(ics, ScanStart).entries

\* the rows of a result that come before the fresh rows of the batch's failures
CarriedOver(p) == SubSeq(p.entries, 1, Len(p.entries) - Len(FailedJobs(p.pjs)))

\* C8: for every history and batch, no historical entry whose context key is the
\* context of a job of the batch is carried into the final entry list, whatever
\* the outcome of that job.
C8_BatchSupersedesHistory ==
    JustParsed =>
        \A i \in 1..Len(CarriedOver(parsed[1])) :
            entryKey(CarriedOver(parsed[1])[i]) \notin BatchContexts(parsed[1].pjs)

C8_Witness ==
    /\ JustParsed
    /\ \E i \in 1..Len(HistoricalEntries(run.ics)) :
          entryKey(HistoricalEntries(run.ics)[i]) = CtxBla
    /\ \E k \in 1..Len(run.pjs) :
          run.pjs[k].Context = CtxBla /\ run.pjs[k].State = SuccessState
    /\ \E i \in 1..Len(parsed[1].entries) : entryKey(parsed[1].entries[i]) = CtxFoo
    /\ ~\E i \in 1..Len(parsed[1].entries) : entryKey(parsed[1].entries[i]) = CtxBla

\* the place of the last historical entry with key k
LastWithKey(es, k) ==
    CHOOSE i \in 1..Len(es) :
        /\ entryKey(es[i]) = k
        /\ \A j \in 1..Len(es) : entryKey(es[j]) = k => j <= i

\* C9: for each context key of the scanned history that is not a context of the
\* batch, exactly one entry with that key is carried into the final list, and it
\* is the one scanned last; no two carried entries share a key.
C9_LastOccurrenceWins ==
    JustParsed =>
        LET es == HistoricalEntries(parsed[1].ics)
            kept == CarriedOver(parsed[1])
            keys == {entryKey(es[i]) : i \in 1..Len(es)} \ BatchContexts(parsed[1].pjs)
        IN  /\ \A k \in keys :
                  /\ Cardinality({i \in 1..Len(kept) : entryKey(kept[i]) = k}) = 1
                  /\ \E i \in 1..Len(kept) : kept[i] = es[LastWithKey(es, k)]
            /\ \A i, j \in 1..Len(kept) :
                  entryKey(kept[i]) = entryKey(kept[j]) => i = j

C9_Witness ==
    /\ JustParsed
    /\ Len(run.ics) = 2
    /\ run.ics[1].Body = BodyBlaFoo /\ run.ics[2].Body = BodyFoo
    /\ isBot(run.ics[1].User) /\ isBot(run.ics[2].User)
    /\ run.pjs = <<>>
    /\ parsed[1].entries = <<Row(CtxBla, <<"v1">>), Row(CtxFoo, <<"v2">>)>>

\* C10: the final list ends with one freshly rendered row for each job of the
\* batch whose outcome is Failure, in batch order, and holds no row for any other
\* job; the flag that forces a new comment is set exactly when the batch has a
\* failed job.
C10_FreshRowsForFailures ==
    JustParsed =>
        LET p == parsed[1]
            fresh == FailedJobs(p.pjs)
            es == HistoricalEntries(p.ics)
            keys == {entryKey(es[i]) : i \in 1..Len(es)} \ BatchContexts(p.pjs)
        IN  /\ Len(p.entries) = Cardinality(keys) + Len(fresh)
            /\ \A i \in 1..Len(fresh) :
                  p.entries[Len(p.entries) - Len(fresh) + i] = createEntry(fresh[i])
            /\ p.createNewComment <=> Len(fresh) >= 1

C10_Witness ==
    /\ JustParsed
    /\ Len(run.pjs) = 2
    /\ run.pjs[1].State = ErrorState
    /\ run.pjs[2].State = FailureState
    /\ run.ics # <<>>
    /\ parsed[1].entries # <<>>
    /\ parsed[1].entries[Len(parsed[1].entries)] = createEntry(run.pjs[2])
    /\ parsed[1].createNewComment
    /\ parsed[1].updateID = 0

(***************************************************************************)
(* Claims about serial runs of ReportComment (Spec).                       *)
(***************************************************************************)
\* whether the last run reconciled the comments of pull number
Reconciled(number) ==
    /\ run.op \in {"ReportComment", "ReportCommentAgain"}
    /\ \E i \in 1..Len(parsed) : parsed[i].unit = <<"issue", number>>

\* C1: after serial runs of ReportComment on a pre-merge review unit, every
\* remote call succeeding and no comment identifier being zero, the comment list
\* of the unit holds at most one comment written by the bot and carrying the
\* marker, whatever comments it held before the first run.
C1_AtMostOneReport ==
    (/\ Reconciled(Pull1.Number)
     /\ err = NoError
     /\ \A i \in 1..Len(issueComments[Pull1.Number]) : issueComments[Pull1.Number][i].ID # 0)
        => OwnMarkedCount(issueComments[Pull1.Number]) <= 1

C1_Witness ==
    /\ Reconciled(Pull1.Number)
    /\ run.n = MaxRuns
    /\ err = NoError
    /\ Len(parsed[1].deletes) = 2
    /\ \A i \in 1..Len(issueComments[Pull1.Number]) : issueComments[Pull1.Number][i].ID # 0
    /\ OwnMarkedCount(issueComments[Pull1.Number]) = 1

\* C2: delivering the same batch a second time, no remote call failing, leaves
\* the same multiset of own+marked comment bodies as delivering it once.
C2_RerunKeepsBodies ==
    (prev.valid /\ prev.err = NoError /\ err = NoError)
        => OwnMarkedBodies(issueComments, commitComments) = prev.bodies

\* a second delivery of one failed pre-merge job, to a pull that had no comment,
\* after which the report differs from the one the first delivery left
C2_Witness ==
    /\ prev.valid /\ prev.err = NoError /\ err = NoError
    /\ run.n = 2
    /\ run.pjs = <<PreJob(CtxPiped, FailureState)>>
    /\ ~run.mustCreate
    /\ Len(issueComments[Pull1.Number]) = 1
    /\ commitComments = [s \in BaseSHAs |-> <<>>]
    /\ Len(parsed[1].entries) = 2
    /\ OwnMarkedBodies(issueComments, commitComments) # prev.bodies

\* the comments of a list that the parser is to ignore
Foreign(comments) == SelectSeq(comments, LAMBDA c : ~OwnMarked(c))

\* the pre-merge jobs of a batch that ReportComment reconciles
PresubmitPart(pjs) ==
    SelectSeq(pjs, LAMBDA pj : takesPart(pj, JobTypesToReport) /\ pj.Type # PostsubmitJob)

\* C3: a comment that the bot did not write, or that lacks the marker, is never
\* in the deletion set, never the update target, adds no entry to the final
\* list, and is left as it was in the remote store by every run.
C3_ForeignStep ==
    run'.n = run.n + 1 =>
        /\ \A n \in PullNumbers :
              SelectSeq(issueComments'[n],
                        LAMBDA c : c \in Range(Foreign(issueComments[n])))
                 = Foreign(issueComments[n])
        /\ \A i \in 1..Len(parsed') :
              parsed'[i].unit = <<"issue", Pull1.Number>> =>
                 /\ \A c \in Range(Foreign(issueComments[Pull1.Number])) :
                       /\ c.ID \notin Range(parsed'[i].deletes)
                       /\ parsed'[i].updateID # 0 => parsed'[i].updateID # c.ID
                 /\ parsed'[i].entries =
                       parseIssueComments(
                           PresubmitPart(run'.pjs),
                           SelectSeq(issueComments[Pull1.Number], OwnMarked)).entries

C3_ForeignUntouched == [][C3_ForeignStep]_vars

C3_Witness ==
    /\ Reconciled(Pull1.Number)
    /\ err = NoError
    /\ \E i \in 1..Len(calls) : calls[i].op = "DeleteComment"
    /\ \E i \in 1..Len(calls) : calls[i].op = "CreateComment"
    /\ \E i \in 1..Len(issueComments[Pull1.Number]) :
          /\ issueComments[Pull1.Number][i].User = HumanLogin
          /\ issueComments[Pull1.Number][i].Body = BodyBlaFoo
    /\ \E i \in 1..Len(issueComments[Pull1.Number]) :
          /\ issueComments[Pull1.Number][i].User = BotLogin
          /\ issueComments[Pull1.Number][i].Body = BodyUnmarked

(***************************************************************************)
(* Claims about the deletion set and the update target (SpecParse).        *)
(***************************************************************************)
\* the identifiers of the own+marked comments of a list, in list order
OwnMarkedIDs(ics) ==
    [i \in 1..Len(SelectSeq(ics, OwnMarked)) |-> SelectSeq(ics, OwnMarked)[i].ID]

\* no own+marked comment of the list has identifier 0
NonZeroIDs(ics) == \A i \in 1..Len(OwnMarkedIDs(ics)) : OwnMarkedIDs(ics)[i] # 0

\* all but the last element of a sequence
Front(s) == SubSeq(s, 1, Len(s) - 1)

\* C11: with non-zero identifiers, the deletion set is every previous own+marked
\* identifier, plus the latest one exactly when a fresh Failure row was appended
\* or the final entry list is empty; otherwise the latest is not in it.
C11_DeletionSet ==
    (JustParsed /\ NonZeroIDs(parsed[1].ics) /\ OwnMarkedIDs(parsed[1].ics) # <<>>) =>
        LET p == parsed[1]
            ids == OwnMarkedIDs(p.ics)
        IN  IF Len(FailedJobs(p.pjs)) >= 1 \/ p.entries = <<>>
            THEN p.deletes = ids
            ELSE p.deletes = Front(ids) /\ ids[Len(ids)] \notin Range(p.deletes)

\* two own+marked comments, a batch without failure that supersedes every row:
\* both comments are in the deletion set
C11_Witness ==
    /\ JustParsed
    /\ NonZeroIDs(run.ics)
    /\ Len(OwnMarkedIDs(run.ics)) = 2
    /\ FailedJobs(run.pjs) = <<>>
    /\ HistoricalEntries(run.ics) # <<>>
    /\ parsed[1].entries = <<>>
    /\ parsed[1].deletes = OwnMarkedIDs(run.ics)

(***************************************************************************)
(* Claims about what one run does to the reports of a pull (Spec).         *)
(***************************************************************************)
\* a step of Spec is one run of ReportComment
IsRun == run'.n = run.n + 1

\* the calls of a log with a given operation
CallsOf(cs, op) == SelectSeq(cs, LAMBDA c : c.op = op)

\* the calls of a log that create a report on a pull
ReportCreates(cs) ==
    SelectSeq(cs, LAMBDA c : c.op = "CreateComment" /\ Contains(c.body, <<commentTag>>))

\* the historical rows that survive a batch with contexts ctxs: the last row of
\* each key that is not a context of the batch, in scan order
RECURSIVE SurvivorsUpTo(_, _, _)
SurvivorsUpTo(es, ctxs, i) ==
    IF i = 0 THEN <<>>
    ELSE IF entryKey(es[i]) \in ctxs \cup {entryKey(es[j]) : j \in (i + 1)..Len(es)}
         THEN SurvivorsUpTo(es, ctxs, i - 1)
         ELSE Append(SurvivorsUpTo(es, ctxs, i - 1), es[i])

Survivors(es, ctxs) == SurvivorsUpTo(es, ctxs, Len(es))

\* the fresh rows of the failed jobs of a batch, in batch order
FreshRows(pjs) == [k \in 1..Len(FailedJobs(pjs)) |-> createEntry(FailedJobs(pjs)[k])]

\* the rows a pre-merge run is to leave, from the comments listed before it
MergedRows(comments, pjs) ==
    Survivors(HistoricalEntries(comments), BatchContexts(pjs)) \o FreshRows(pjs)

\* the lines of a rendered report from line first on, count of them
BodyLines(body, first, count) == SubSeq(Split(body, <<NL>>), first, first + count - 1)

\* C12: when the pre-merge batch has a failed job (identifiers non-zero, no call
\* failing), the run deletes every own+marked comment of the pull, the latest
\* included, issues exactly one create and no edit, and the rows of the created
\* report are the surviving historical rows in scan order followed by the fresh
\* rows of the failed jobs in batch order.
C12_Step ==
    (/\ IsRun
     /\ err' = NoError
     /\ FailedJobs(PresubmitPart(run'.pjs)) # <<>>
     /\ NonZeroIDs(issueComments[Pull1.Number])) =>
        \E ids \in {OwnMarkedIDs(issueComments[Pull1.Number])},
           rows \in {MergedRows(issueComments[Pull1.Number], PresubmitPart(run'.pjs))},
           creates \in {ReportCreates(calls')} :
            /\ \A id \in Range(ids) :
                  /\ \E i \in 1..Len(calls') : calls'[i] = DeleteCommentCall(id)
                  /\ \A i \in 1..Len(issueComments'[Pull1.Number]) :
                        issueComments'[Pull1.Number][i].ID # id
            /\ Len(creates) = 1
            /\ CallsOf(calls', "EditComment") = <<>>
            /\ creates[1].number = Pull1.Number
            /\ BodyLines(creates[1].body, 5, Len(rows) + 1) = Append(rows, <<>>)
            /\ OwnMarkedCount(issueComments'[Pull1.Number]) = 1

C12_FailureCreatesAnew == [][C12_Step]_vars

\* a run with a failed job on a pull that held a report with a row of another
\* job: the old report is deleted and the new one holds the old row, then the
\* fresh one
C12_Witness ==
    /\ Reconciled(Pull1.Number)
    /\ err = NoError
    /\ run.n = 1
    /\ run.pjs = <<PreJob(CtxBla, FailureState)>>
    /\ Len(CallsOf(calls, "DeleteComment")) = 2
    /\ Len(ReportCreates(calls)) = 1
    /\ BodyLines(ReportCreates(calls)[1].body, 5, 2)
          = <<Row(CtxFoo, <<"v2">>), createEntry(PreJob(CtxBla, FailureState))>>

\* C13: when the pre-merge batch has no failed job and a historical row survives
\* (identifiers non-zero, no call failing), the latest own+marked comment is not
\* deleted, the run issues exactly one edit, against that comment and carrying
\* the merged rows, and creates no report.
C13_Step ==
    (/\ IsRun
     /\ err' = NoError
     /\ PresubmitPart(run'.pjs) # <<>>
     /\ FailedJobs(PresubmitPart(run'.pjs)) = <<>>
     /\ NonZeroIDs(issueComments[Pull1.Number])) =>
        \E ids \in {OwnMarkedIDs(issueComments[Pull1.Number])},
           rows \in {MergedRows(issueComments[Pull1.Number], PresubmitPart(run'.pjs))},
           edits \in {CallsOf(calls', "EditComment")} :
            rows # <<>> =>
                /\ ~\E i \in 1..Len(calls') : calls'[i] = DeleteCommentCall(ids[Len(ids)])
                /\ \A id \in Range(Front(ids)) :
                      \E i \in 1..Len(calls') : calls'[i] = DeleteCommentCall(id)
                /\ Len(edits) = 1
                /\ edits[1].id = ids[Len(ids)]
                /\ BodyLines(edits[1].body, 5, Len(rows) + 1) = Append(rows, <<>>)
                /\ ReportCreates(calls') = <<>>
                /\ \E i \in 1..Len(issueComments'[Pull1.Number]) :
                      /\ issueComments'[Pull1.Number][i].ID = ids[Len(ids)]
                      /\ issueComments'[Pull1.Number][i].Body = edits[1].body
                /\ OwnMarkedCount(issueComments'[Pull1.Number]) = 1

C13_SurvivorsEditLatest == [][C13_Step]_vars

\* a passing job on a pull whose two reports hold a row of another job: the
\* earlier report is deleted, the later one is edited to hold that row
C13_Witness ==
    /\ Reconciled(Pull1.Number)
    /\ err = NoError
    /\ run.n = 1
    /\ run.pjs = <<PreJob(CtxBla, SuccessState)>>
    /\ CallsOf(calls, "DeleteComment") = <<DeleteCommentCall(FirstOldID + 1)>>
    /\ ReportCreates(calls) = <<>>
    /\ Len(CallsOf(calls, "EditComment")) = 1
    /\ CallsOf(calls, "EditComment")[1].id = FirstOldID + 2
    /\ BodyLines(CallsOf(calls, "EditComment")[1].body, 5, 2) = <<Row(CtxFoo, <<"v2">>), <<>> >>

\* the identifiers of the own+marked comments of the commits of the store
OwnMarkedCommitIDs(commit) == {commit[p[1]][p[2]].ID : p \in OwnMarkedAt(commit)}

\* C14: when the final entry list of the pre-merge batch is empty and the force
\* flag is not set (identifiers non-zero, no call failing), the run creates no
\* report and edits nothing; it deletes every own+marked comment of the pull,
\* the latest included, and no other comment, so that no report remains.
C14_Step ==
    (/\ IsRun
     /\ err' = NoError
     /\ ~run'.mustCreate
     /\ PresubmitPart(run'.pjs) # <<>>
     /\ FailedJobs(PresubmitPart(run'.pjs)) = <<>>
     /\ NonZeroIDs(issueComments[Pull1.Number])) =>
        \E ids \in {OwnMarkedIDs(issueComments[Pull1.Number])},
           rows \in {MergedRows(issueComments[Pull1.Number], PresubmitPart(run'.pjs))},
           deletes \in {CallsOf(calls', "DeleteComment")} :
            rows = <<>> =>
                /\ ReportCreates(calls') = <<>>
                /\ CallsOf(calls', "EditComment") = <<>>
                /\ \A id \in Range(ids) : DeleteCommentCall(id) \in Range(deletes)
                /\ \A i \in 1..Len(deletes) :
                      deletes[i].id \in Range(ids) \cup OwnMarkedCommitIDs(commitComments)
                /\ OwnMarkedCount(issueComments'[Pull1.Number]) = 0
                /\ SelectSeq(issueComments'[Pull1.Number],
                             LAMBDA c : c \in Range(issueComments[Pull1.Number]))
                      = Foreign(issueComments[Pull1.Number])

C14_EmptyListDeletesOnly == [][C14_Step]_vars

\* two passing jobs that supersede every row of the two reports of a pull, not
\* forced: both reports are deleted and nothing is posted
C14_Witness ==
    /\ Reconciled(Pull1.Number)
    /\ err = NoError
    /\ run.n = 1
    /\ ~run.mustCreate
    /\ run.pjs = <<PreJob(CtxBla, SuccessState), PreJob(CtxFoo, SuccessState)>>
    /\ calls = <<ListIssueCommentsCall(Pull1.Number), BotUserCheckerCall,
                 DeleteCommentCall(FirstOldID + 1), DeleteCommentCall(FirstOldID + 2)>>
    /\ issueComments[Pull1.Number] = <<>>

(***************************************************************************)
(* Claims about merging duplicate rows (SpecParse).                        *)
(***************************************************************************)
\* the rows of one comment body
RowsOf(body) == scanLines(Split(body, <<NL>>), FALSE, <<>>)

\* the keys of a list of rows
KeysOf(rows) == {entryKey(rows[i]) : i \in 1..Len(rows)}

\* the history is two own+marked comments with non-zero identifiers that both
\* hold a row with key k, and the batch has no job with context k and no failed
\* job
TwoReportsShare(ics, pjs, k) ==
    /\ Len(ics) = 2
    /\ OwnMarked(ics[1]) /\ OwnMarked(ics[2])
    /\ ics[1].ID # 0 /\ ics[2].ID # 0
    /\ k \in KeysOf(RowsOf(ics[1].Body)) \cap KeysOf(RowsOf(ics[2].Body))
    /\ k \notin BatchContexts(pjs)
    /\ FailedJobs(pjs) = <<>>

\* the final list holds one row with key k, and it is the last such row of the
\* later comment
LaterRowRetained(p, k) ==
    /\ Cardinality({i \in 1..Len(p.entries) : entryKey(p.entries[i]) = k}) = 1
    /\ \E i \in 1..Len(p.entries) :
          p.entries[i] = RowsOf(p.ics[2].Body)[LastWithKey(RowsOf(p.ics[2].Body), k)]

SharedKeys == {CtxBla, CtxFoo}

\* C15 as stated: given two own+marked comments that share a row key, and a batch
\* with no job of that context and no failed job, both comments are in the
\* deletion set and the row of the later comment is retained.
C15_BothDeleted ==
    JustParsed =>
        \A k \in SharedKeys :
            TwoReportsShare(parsed[1].ics, parsed[1].pjs, k) =>
                /\ parsed[1].ics[1].ID \in Range(parsed[1].deletes)
                /\ parsed[1].ics[2].ID \in Range(parsed[1].deletes)
                /\ LaterRowRetained(parsed[1], k)

\* C15 amended: in that case only the earlier comment is in the deletion set,
\* the later comment is the update target, and the row of the later comment is
\* retained.
C15_EarlierDeletedLaterUpdated ==
    JustParsed =>
        \A k \in SharedKeys :
            TwoReportsShare(parsed[1].ics, parsed[1].pjs, k) =>
                /\ parsed[1].deletes = <<parsed[1].ics[1].ID>>
                /\ parsed[1].updateID = parsed[1].ics[2].ID
                /\ LaterRowRetained(parsed[1], k)

C15_Witness ==
    /\ JustParsed
    /\ TwoReportsShare(run.ics, run.pjs, CtxFoo)
    /\ run.ics[1].Body = BodyBlaFoo /\ run.ics[2].Body = BodyFoo
    /\ Len(run.pjs) = 1 /\ run.pjs[1].Context = CtxBla
    /\ parsed[1].entries = <<Row(CtxFoo, <<"v2">>)>>
    /\ parsed[1].updateID = run.ics[2].ID

(***************************************************************************)
(* SpecRender: createEntry and createComment applied to batches of jobs of *)
(* both kinds, with and without an optional label, to entry lists and to   *)
(* templates.                                                              *)
(***************************************************************************)
MaxEntries == 2

\* the values of the optional label: none, two that parse as booleans and one
\* that does not
OptionalLabels == {"absent", "true", "false", "maybe"}

RenderJobs ==
    {ProwJob(CtxBla, FailureState, PresubmitJob, TRUE, TRUE, RefsOnePull, l, FALSE) :
        l \in OptionalLabels}
      \cup {PreJob(CtxPiped, FailureState),
            PreJob(CtxFoo, SuccessState),
            ProwJob(CtxBla, FailureState, PostsubmitJob, TRUE, TRUE, RefsOnePull, "true", TRUE)}

RenderBatches == UNION {[1..n -> RenderJobs] : n \in 0..MaxBatch}

RenderRows == {Row(CtxBla, <<"v1">>), Row(CtxFoo, <<"v2">>), createEntry(PreJob(CtxPiped, FailureState))}

RenderEntries == UNION {[1..n -> RenderRows] : n \in 0..MaxEntries}

InitRender ==
    /\ InitRemote
    /\ calls = <<>>
    /\ err = NoError
    /\ parsed = <<>>
    /\ prev = NoPrev
    /\ run \in [op : {"input"}, reportTemplate : ReportTemplates, pjs : RenderBatches,
                 entries : RenderEntries]

\* createEntry on the first job of the batch
CallCreateEntry ==
    /\ run.op = "input"
    /\ Len(run.pjs) > 0
    /\ parsed' = << [pj |-> run.pjs[1], entry |-> createEntry(run.pjs[1])] >>
    /\ run' = [run EXCEPT !.op = "createEntry"]
    /\ UNCHANGED <<issueComments, commitComments, nextID, calls, err, prev>>

CallCreateComment ==
    /\ run.op = "input"
    /\ \E c \in {createComment(run.reportTemplate, run.pjs, run.entries)} :
          /\ parsed' = << [reportTemplate |-> run.reportTemplate, pjs |-> run.pjs,
                            entries |-> run.entries, comment |-> c.comment] >>
          /\ err' = c.err
    /\ run' = [run EXCEPT !.op = "createComment"]
    /\ UNCHANGED <<issueComments, commitComments, nextID, calls, prev>>

NextRender == CallCreateEntry \/ CallCreateComment

SpecRender == InitRender /\ [][NextRender]_vars

(***************************************************************************)
(* Claims about the renderer (SpecRender).                                 *)
(***************************************************************************)
JustEntered == run.op = "createEntry"
JustRendered == run.op = "createComment"

\* the fields of a row
Fields(entry) == Split(entry, FieldSep)

\* the "required" field of a fresh pre-merge row: the one before the rerun command
RequiredOf(entry) == Fields(entry)[Len(Fields(entry)) - 1]

FailingPreMerge(pj) == pj.Type = PresubmitJob /\ pj.State = FailureState

\* C16 as stated: the fresh row of a failing pre-merge job has "required" equal
\* to true when the job has no optional label, and to the negation of the label
\* when the label is a boolean.
C16_RequiredTrueByDefault ==
    (JustEntered /\ FailingPreMerge(parsed[1].pj)) =>
        /\ parsed[1].pj.Optional = "absent" => RequiredOf(parsed[1].entry) = <<"true">>
        /\ parsed[1].pj.Optional \in ParseBoolTrue => RequiredOf(parsed[1].entry) = <<"false">>
        /\ parsed[1].pj.Optional \in ParseBoolFalse => RequiredOf(parsed[1].entry) = <<"true">>

\* C16 amended: the fresh row of a failing pre-merge job has "required" equal to
\* the negation of the optional label when the label is a boolean, and to
\* "unknown" when the job has no such label or the label is not a boolean.
C16_RequiredUnknownByDefault ==
    (JustEntered /\ FailingPreMerge(parsed[1].pj)) =>
        /\ Len(Fields(parsed[1].entry)) >= 5
        /\ RequiredOf(parsed[1].entry) =
              (IF parsed[1].pj.Optional \in ParseBoolTrue THEN <<"false">>
               ELSE IF parsed[1].pj.Optional \in ParseBoolFalse THEN <<"true">>
               ELSE <<"unknown">>)

C16_Witness ==
    /\ JustEntered
    /\ FailingPreMerge(parsed[1].pj)
    /\ parsed[1].pj.Optional = "true"
    /\ parsed[1].entry = Join(<<CtxBla, <<"head1">>, <<"[link](", "url", ")">>, <<"false">>,
                                 <<BackTick, "/test", " ", "x", BackTick>> >>, FieldSep)

\* the lines of the rendered comment
RenderedLines == Split(parsed[1].comment, <<NL>>)

\* the column-header rows and the divider rows of the two kinds of table
HeaderRow5 ==
    Join(<< <<"Test name">>, <<"Commit">>, <<"Details">>, <<"Required">>, <<"Rerun command">> >>,
         FieldSep)
HeaderRow3 == Join(<< <<"Test name">>, <<"Commit">>, <<"Details">> >>, FieldSep)
DividerRow5 == Join(<<Divider, Divider, Divider, Divider, Divider>>, FieldSep)
DividerRow3 == Join(<<Divider, Divider, Divider>>, FieldSep)

\* the author a comment for the batch is addressed to
AddressedTo(pjs) ==
    IF pjs[1].Type = PostsubmitJob THEN pjs[1].Refs.Author ELSE pjs[1].Refs.Pulls[1].Author

\* C17: a comment rendered for a non-empty batch and no entry starts with the
\* "all tests passed" header addressed to the author, and holds neither a
\* column-header row nor a divider row, whatever the kind of the first job.
C17_AllPassedHeader ==
    (JustRendered /\ err = NoError /\ Len(parsed[1].pjs) > 0 /\ parsed[1].entries = <<>>) =>
        \E lines \in {RenderedLines} :
            /\ lines[1] = <<"@", AddressedTo(parsed[1].pjs), ": all tests **passed!**">>
            /\ \A i \in 1..Len(lines) :
                  lines[i] \notin {HeaderRow5, HeaderRow3, DividerRow5, DividerRow3}

C17_Witness ==
    /\ JustRendered /\ err = NoError
    /\ parsed[1].entries = <<>>
    /\ Len(parsed[1].pjs) = 2
    /\ parsed[1].pjs[1].Type = PostsubmitJob
    /\ parsed[1].reportTemplate = "context"
    /\ RenderedLines[1] = <<"@", "carol", ": all tests **passed!**">>

\* C18: a comment rendered for a non-empty entry list has a column header of 5
\* columns when the first job is not a postsubmit and of 3 columns when it is,
\* says "tests" exactly when there is more than one entry, and lists the entries
\* in the given order right after the divider row.
C18_TableShape ==
    (JustRendered /\ err = NoError /\ Len(parsed[1].pjs) > 0 /\ parsed[1].entries # <<>>) =>
        \E lines \in {RenderedLines} :
            /\ lines[3] = (IF parsed[1].pjs[1].Type = PostsubmitJob THEN HeaderRow3 ELSE HeaderRow5)
            /\ lines[4] = (IF parsed[1].pjs[1].Type = PostsubmitJob THEN DividerRow3 ELSE DividerRow5)
            /\ HasPrefix(lines[1], <<"@", AddressedTo(parsed[1].pjs), ": The following test">>)
            /\ (lines[1][4] = "s") <=> (Len(parsed[1].entries) > 1)
            /\ SubSeq(lines, 5, 4 + Len(parsed[1].entries)) = parsed[1].entries

C18_Witness ==
    /\ JustRendered /\ err = NoError
    /\ Len(parsed[1].pjs) = 1
    /\ parsed[1].pjs[1].Type = PostsubmitJob
    /\ parsed[1].entries = <<Row(CtxFoo, <<"v2">>), Row(CtxBla, <<"v1">>)>>
    /\ RenderedLines[1][4] = "s"
    /\ RenderedLines[3] = HeaderRow3
    /\ RenderedLines[6] = Row(CtxBla, <<"v1">>)

(***************************************************************************)
(* SpecTemplate: one run of ReportComment with every template, against     *)
(* every comment history of pull 1.                                        *)
(***************************************************************************)
ReportCommentTemplate ==
    /\ run = NoRun
    /\ \E pjs \in Batches, mustCreate \in BOOLEAN, reportTemplate \in ReportTemplates :
        /\ Deliver("ReportCommentTemplate", pjs, reportTemplate, mustCreate)
        /\ prev' = NoPrev

NextTemplate == ReportCommentTemplate

SpecTemplate == Init /\ [][NextTemplate]_vars

(***************************************************************************)
(* Claims about template failures (SpecTemplate).                          *)
(***************************************************************************)
JustTemplated == run.op = "ReportCommentTemplate"

\* the error createOrUpdateComments returns when the template fails
TemplateFailure == WrapError("generating comment", TemplateError)

\* the jobs of a batch that ReportComment reports as post-merge jobs
PostsubmitPart(pjs) ==
    SelectSeq(pjs, LAMBDA pj : takesPart(pj, JobTypesToReport) /\ pj.Type = PostsubmitJob
                                   /\ pj.CommentOnPostsubmits)

\* the places of a call log that create or edit a comment
PostsAt(cs) ==
    {k \in 1..Len(cs) : cs[k].op \in {"CreateComment", "CreateCommitComment", "EditComment"}}

\* the places of a call log that create or edit a report
ReportPostsAt(cs) == {k \in PostsAt(cs) : Contains(cs[k].body, <<commentTag>>)}

\* whether the call at place k belongs to the post-merge part of the run: the
\* part starts by listing the commit comments
InPostsubmitPart(cs, k) == \E j \in 1..(k - 1) : cs[j].op = "ListCommitComments"

\* the lines of a body that a template wrote
TemplateLines(body) ==
    {l \in Range(Split(body, <<NL>>)) : HasPrefix(l, <<"report for", " ">>)}

\* every report the run posted with a template holds the output of the template
\* for the first job of its part, and for no other job
TemplateOnFirstJob ==
    (JustTemplated /\ run.reportTemplate # "nil") =>
        \A k \in ReportPostsAt(calls) :
            \E part \in {IF InPostsubmitPart(calls, k) THEN PostsubmitPart(run.pjs)
                          ELSE PresubmitPart(run.pjs)} :
                TemplateLines(calls[k].body) = {<<"report for", " ">> \o part[1].Context}

\* a template that fails on every job fails the run of a batch with a failed
\* pre-merge job, and the run posts nothing
BrokenTemplateFailsRun ==
    (JustTemplated /\ run.reportTemplate = "broken"
        /\ FailedJobs(PresubmitPart(run.pjs)) # <<>>) =>
            err # NoError /\ PostsAt(calls) = {}

\* C19 as stated: the template is executed against the first job only, and a
\* run whose template execution fails returns an error and has issued neither a
\* create nor an edit call.
C19_NothingPostedByRun ==
    /\ TemplateOnFirstJob
    /\ BrokenTemplateFailsRun
    /\ (JustTemplated /\ err = TemplateFailure) => PostsAt(calls) = {}

\* C19 amended: the template is executed against the first job of the part
\* (pre-merge or post-merge) being reported only, and a run whose template
\* execution fails returns an error and has issued neither a create nor an edit
\* call for the part whose rendering failed, nor any call after it; a report
\* posted for the pre-merge part before the post-merge part fails stands.
C19_NothingPostedForPart ==
    /\ TemplateOnFirstJob
    /\ BrokenTemplateFailsRun
    /\ (JustTemplated /\ err = TemplateFailure) =>
          \E failedPost \in {CallsOf(calls, "ListCommitComments") # <<>>} :
              /\ \A k \in PostsAt(calls) : failedPost /\ ~InPostsubmitPart(calls, k)
              /\ Len(calls) \notin PostsAt(calls)

C19_Witness ==
    /\ JustTemplated
    /\ run.reportTemplate = "broken"
    /\ run.pjs = <<PreJob(CtxBla, FailureState), PreJob(CtxFoo, FailureState)>>
    /\ err = TemplateFailure
    /\ PostsAt(calls) = {}

\* a run with a template that fails on postsubmit jobs only: the report of the
\* pre-merge part is posted before the post-merge part fails
C19_MixedBatchWitness ==
    /\ JustTemplated
    /\ run.reportTemplate = "brokenOnPostsubmit"
    /\ Len(run.pjs) = 2
    /\ err = TemplateFailure
    /\ PostsAt(calls) # {}

\* C20 as stated: when a run returns the render error it has issued no delete,
\* no create and no edit call, and the remote comment store is the same as
\* before the run.
C20_Step ==
    (IsRun /\ err' = TemplateFailure) =>
        /\ PostsAt(calls') = {}
        /\ CallsOf(calls', "DeleteComment") = <<>>
        /\ issueComments' = issueComments
        /\ commitComments' = commitComments

C20_NoMutationBeforeRenderError == [][C20_Step]_vars

\* a run that deleted the only report of the pull and then failed to render
C20_Witness ==
    /\ JustTemplated
    /\ run.reportTemplate = "broken"
    /\ run.pjs = <<PreJob(CtxBla, FailureState)>>
    /\ err = TemplateFailure
    /\ CallsOf(calls, "DeleteComment") = <<DeleteCommentCall(FirstOldID + 1)>>
    /\ issueComments[Pull1.Number] = <<>>

(***************************************************************************)
(* Runs call by call.  A process executes Report or ReportComment one      *)
(* remote call at a time; the host serves each call atomically and may     *)
(* fail it.  run[p] holds the position and the local variables of process  *)
(* p, calls[p] the calls it issued with their results, err[p] the error it *)
(* returned.  prev counts the failed calls and holds the comment store     *)
(* before the first run.                                                   *)
(***************************************************************************)
MaxProcs == 2
MaxFaults == 2
MaxAttempts == 3

Idle == [pc |-> "idle", n |-> 0]

\* the store as the host holds it
Store == Remote(issueComments, commitComments, nextID)

\* the jobs of the part (pre-merge, then post-merge) a run is reconciling
partPjs(r) == IF r.part = "pre" THEN PresubmitPart(r.pjs) ELSE PostsubmitPart(r.pjs)

returned(r) == [r EXCEPT !.pc = "done"]

\* where ReportComment goes once createOrUpdateComments has returned nil for
\* the part: the post-merge part, the one-time note, or the end
afterPart(r) ==
    IF r.part = "pre" /\ PostsubmitPart(r.pjs) # <<>>
    THEN [r EXCEPT !.part = "post", !.pc = "list"]
    ELSE IF PostsubmitPart(r.pjs) = <<>> THEN returned(r)
    ELSE IF Len(PostsubmitPart(r.pjs)[1].Refs.Pulls) = 0 THEN returned(r)
    ELSE [r EXCEPT !.pc = "noteBot"]

\* the loop of ReportComment over the two parts, from its start
beginComments(r) ==
    IF PresubmitPart(r.pjs) # <<>> /\ Len(PresubmitPart(r.pjs)[1].Refs.Pulls) > 0
    THEN [r EXCEPT !.part = "pre", !.pc = "list"]
    ELSE afterPart([r EXCEPT !.part = "pre"])

\* a createOrUpdateComments without its delete loop
afterDeletesSkipsLoop(r) ==
    IF commentNeeded(r.entries, r.mustCreate) THEN [r EXCEPT !.pc = "post"]
    ELSE afterPart(r)

\* createOrUpdateComments from its delete loop on: the next delete, then the
\* comment if one is needed
afterDeletes(r) ==
    IF r.deletes # <<>> THEN [r EXCEPT !.pc = "delete"]
    ELSE IF commentNeeded(r.entries, r.mustCreate) THEN [r EXCEPT !.pc = "post"]
    ELSE afterPart(r)

\* a delete loop that goes on after a failed delete
afterDeleteIgnoresFailure(r, ok) ==
    [r |-> afterDeletes([r EXCEPT !.deletes = Tail(@)]), err |-> NoError]

\* the delete loop after one DeleteComment call
afterDelete(r, ok) ==
    IF ok THEN [r |-> afterDeletes([r EXCEPT !.deletes = Tail(@)]), err |-> NoError]
    ELSE [r |-> returned(r), err |-> WrapError("error deleting comment", ErrRemote("DeleteComment"))]

\* whether the host may fail the next call
MayFail == prev.faults < prev.budget

\* process p has issued call with result ok, is left in r, the store in G, and
\* has returned e if it has returned
Served(p, r, G, call, ok, e) ==
    /\ run' = [run EXCEPT ![p] = r]
    /\ issueComments' = G.issue
    /\ commitComments' = G.commit
    /\ nextID' = G.next
    /\ calls' = [calls EXCEPT ![p] = Append(@, [call |-> call, ok |-> ok])]
    /\ err' = [err EXCEPT ![p] = e]
    /\ prev' = [prev EXCEPT !.faults = IF ok THEN @ ELSE @ + 1]
    /\ UNCHANGED parsed

\* process p starts a run and is at r before its first remote call; prev counts
\* the runs that returned an error and holds the number of reports on pull 1
\* that the run finds
Moved(p, r, e) ==
    /\ run' = [run EXCEPT ![p] = r]
    /\ calls' = [calls EXCEPT ![p] = <<>>]
    /\ err' = [err EXCEPT ![p] = e]
    /\ prev' = [prev EXCEPT !.aborted = IF run[p].pc = "done" /\ err[p] # NoError
                                        THEN @ + 1 ELSE @,
                            !.leftover = OwnMarkedCount(issueComments[Pull1.Number])]
    /\ UNCHANGED <<issueComments, commitComments, nextID, parsed>>

\* the local variables of a run that starts
Started(n, pjs, mustCreate, viaReport) ==
    [pc |-> "start", n |-> n, pjs |-> pjs, mustCreate |-> mustCreate, viaReport |-> viaReport,
     part |-> "pre", comments |-> <<>>, deletes |-> <<>>, entries |-> <<>>, updateID |-> 0,
     posted |-> {}]

\* ReportComment(ghc, nil, pjs, config, mustCreate) up to its first remote call
StartReportComment(p, pjs, mustCreate) ==
    /\ run[p].pc \in {"idle", "done"}
    /\ Moved(p, beginComments(Started(run[p].n + 1, pjs, mustCreate, FALSE)), NoError)

\* a Report that goes to the comments without setting the status
StartReportSkipsStatus(p, pj) ==
    /\ run[p].pc \in {"idle", "done"}
    /\ Moved(p, beginComments(Started(run[p].n + 1, <<pj>>, FALSE, TRUE)), NoError)

\* Report(ghc, nil, pj, config) up to its first remote call
StartReport(p, pj) ==
    /\ run[p].pc \in {"idle", "done"}
    /\ \E r \in {Started(run[p].n + 1, <<pj>>, FALSE, TRUE)},
          s \in {reportStatusContextResult(TRUE, pj, JobTypesToReport, TRUE)} :
            IF s.calls # <<>> THEN Moved(p, [r EXCEPT !.pc = "status"], NoError)
            ELSE IF s.err # NoError THEN Moved(p, returned(r), s.err)
            ELSE Moved(p, beginComments(r), NoError)

\* the CreateStatus call of ReportStatusContext
CallCreateStatus(p) ==
    /\ run[p].pc = "status"
    /\ \E ok \in BOOLEAN :
        /\ ok \/ MayFail
        /\ \E s \in {reportStatusContextResult(TRUE, run[p].pjs[1], JobTypesToReport, ok)} :
            Served(p, IF ok THEN beginComments(run[p]) ELSE returned(run[p]),
                   Store, s.calls[1], ok, s.err)

\* ListIssueComments or ListCommitComments in createOrUpdateComments
CallListComments(p) ==
    /\ run[p].pc = "list"
    /\ \E ok \in BOOLEAN :
        /\ ok \/ MayFail
        /\ \E pjs \in {partPjs(run[p])} :
            Served(p,
                   IF ok THEN [run[p] EXCEPT !.pc = "bot",
                                             !.comments = listedComments(Store, pjs),
                                             !.posted = {q \in DOMAIN run :
                                                            \E k \in 1..Len(calls[q]) :
                                                                calls[q][k].call.op \in
                                                                  {"CreateComment", "EditComment",
                                                                   "CreateCommitComment"}}]
                   ELSE returned(run[p]),
                   Store,
                   IF pjs[1].Type = PostsubmitJob THEN ListCommitCommentsCall(pjs[1].Refs.BaseSHA)
                   ELSE ListIssueCommentsCall(pjs[1].Refs.Pulls[1].Number),
                   ok,
                   IF ok THEN NoError
                   ELSE WrapError("error listing comments",
                                  ErrRemote(IF pjs[1].Type = PostsubmitJob
                                            THEN "ListCommitComments" ELSE "ListIssueComments")))

\* BotUserChecker in createOrUpdateComments, then parseIssueComments on the
\* comments that were listed
CallBotUserChecker(p) ==
    /\ run[p].pc = "bot"
    /\ \E ok \in BOOLEAN :
        /\ ok \/ MayFail
        /\ \E c \in {parseIssueComments(partPjs(run[p]), run[p].comments)} :
            Served(p,
                   IF ok THEN afterDeletes([run[p] EXCEPT !.deletes = c.deletes,
                                                           !.entries = c.entries,
                                                           !.updateID = c.updateID])
                   ELSE returned(run[p]),
                   Store, BotUserCheckerCall, ok,
                   IF ok THEN NoError
                   ELSE WrapError("error getting bot name checker", ErrRemote("BotUserChecker")))

\* one DeleteComment of the delete loop; the host may refuse to delete a
\* comment it does not hold
CallDeleteComment(p) ==
    /\ run[p].pc = "delete"
    /\ \E ok \in BOOLEAN :
        /\ ok \/ MayFail \/ ~remoteHasIssueComment(Store, Head(run[p].deletes))
        /\ \E a \in {afterDelete(run[p], ok)} :
            Served(p, a.r,
                   IF ok THEN remoteDeleteComment(Store, Head(run[p].deletes)) ELSE Store,
                   DeleteCommentCall(Head(run[p].deletes)), ok, a.err)

\* createComment, then CreateComment, CreateCommitComment or EditComment
CallPostComment(p) ==
    /\ run[p].pc = "post"
    /\ \E pjs \in {partPjs(run[p])} :
       \E c \in {createComment("nil", pjs, run[p].entries)} :
       \E ok \in BOOLEAN :
        /\ ok \/ MayFail \/ (run[p].updateID # 0 /\ ~remoteHasIssueComment(Store, run[p].updateID))
        /\ (ok /\ run[p].updateID # 0) => remoteHasIssueComment(Store, run[p].updateID)
        /\ IF run[p].updateID # 0
           THEN Served(p, IF ok THEN afterPart(run[p]) ELSE returned(run[p]),
                       IF ok THEN remoteEditComment(Store, run[p].updateID, c.comment) ELSE Store,
                       EditCommentCall(run[p].updateID, c.comment), ok,
                       IF ok THEN NoError
                       ELSE WrapError("error updating comment", ErrRemote("EditComment")))
           ELSE IF pjs[1].Type = PostsubmitJob
           THEN Served(p, IF ok THEN afterPart(run[p]) ELSE returned(run[p]),
                       IF ok THEN remoteCreateCommitComment(Store, pjs[1].Refs.BaseSHA, c.comment)
                       ELSE Store,
                       CreateCommitCommentCall(pjs[1].Refs.BaseSHA, c.comment), ok,
                       IF ok THEN NoError
                       ELSE WrapError("error creating comment", ErrRemote("CreateCommitComment")))
           ELSE Served(p, IF ok THEN afterPart(run[p]) ELSE returned(run[p]),
                       IF ok THEN remoteCreateComment(Store, pjs[1].Refs.Pulls[1].Number, c.comment)
                       ELSE Store,
                       CreateCommentCall(pjs[1].Refs.Pulls[1].Number, c.comment), ok,
                       IF ok THEN NoError
                       ELSE WrapError("error creating comment", ErrRemote("CreateComment")))

\* the pull that gets the one-time note of a run
notePull(r) == PostsubmitPart(r.pjs)[1].Refs.Pulls[1].Number

\* BotUserChecker in issueHasComment
CallNoteBotUserChecker(p) ==
    /\ run[p].pc = "noteBot"
    /\ \E ok \in BOOLEAN :
        /\ ok \/ MayFail
        /\ Served(p, IF ok THEN [run[p] EXCEPT !.pc = "noteList"] ELSE returned(run[p]),
                  Store, BotUserCheckerCall, ok,
                  IF ok THEN NoError ELSE ErrRemote("BotUserChecker"))

\* ListIssueComments in issueHasComment, then the search for the note
CallNoteListComments(p) ==
    /\ run[p].pc = "noteList"
    /\ \E ok \in BOOLEAN :
        /\ ok \/ MayFail
        /\ Served(p,
                  IF ~ok \/ issueHasComment(Store, notePull(run[p]), <<prCommitNote>>)
                  THEN returned(run[p]) ELSE [run[p] EXCEPT !.pc = "noteCreate"],
                  Store, ListIssueCommentsCall(notePull(run[p])), ok,
                  IF ok THEN NoError
                  ELSE WrapError("error listing comments", ErrRemote("ListIssueComments")))

\* CreateComment of the one-time note
CallNoteCreateComment(p) ==
    /\ run[p].pc = "noteCreate"
    /\ \E ok \in BOOLEAN :
        /\ ok \/ MayFail
        /\ \E note \in {<<prCommitNote, " ", PostsubmitPart(run[p].pjs)[1].Refs.BaseSHA, NL>>} :
            Served(p, returned(run[p]),
                   IF ok THEN remoteCreateComment(Store, notePull(run[p]), note) ELSE Store,
                   CreateCommentCall(notePull(run[p]), note), ok,
                   IF ok THEN NoError
                   ELSE WrapError("error creating comment", ErrRemote("CreateComment")))


\* what prev holds before the first run: no failed call yet, the number of calls
\* the host may fail, and the comment store
Before(budget) ==
    [valid |-> FALSE, faults |-> 0, budget |-> budget, aborted |-> 0, leftover |-> 0,
     issue |-> issueComments, commit |-> commitComments]

(***************************************************************************)
(* SpecSteps: one process runs Report and ReportComment up to MaxAttempts  *)
(* times, one after the other; the host fails up to MaxFaults calls.       *)
(***************************************************************************)
RefsPull2 == Refs("base1", <<Pull2>>)

\* a failing post-merge job that comments
PostJob(ctx, state, refs) == ProwJob(ctx, state, PostsubmitJob, TRUE, TRUE, refs, "absent", TRUE)

\* comment histories of pull 1: none, one report, two reports
StepHistories ==
    { <<>>,
      << [ID |-> FirstOldID + 1, User |-> BotLogin, Body |-> BodyBlaFoo] >>,
      << [ID |-> FirstOldID + 1, User |-> BotLogin, Body |-> BodyBlaFoo],
         [ID |-> FirstOldID + 2, User |-> BotLogin, Body |-> BodyFoo] >> }

StepBatches ==
    { <<PreJob(CtxBla, FailureState)>>,
      <<PreJob(CtxBla, SuccessState)>>,
      <<PostJob(CtxBla, FailureState, RefsOnePull)>>,
      <<PostJob(CtxBla, FailureState, RefsOnePull), PreJob(CtxFoo, FailureState)>> }

StepReportJobs ==
    {PreJob(CtxBla, FailureState), PreJob(CtxBla, SuccessState),
     PostJob(CtxBla, FailureState, RefsOnePull)}

InitSteps ==
    /\ issueComments \in {[n \in PullNumbers |-> IF n = Pull1.Number THEN h ELSE <<>>] :
                            h \in StepHistories}
    /\ commitComments = [s \in BaseSHAs |-> <<>>]
    /\ nextID = FirstNewID
    /\ calls = [p \in {1} |-> <<>>]
    /\ err = [p \in {1} |-> NoError]
    /\ run = [p \in {1} |-> Idle]
    /\ parsed = <<>>
    /\ prev = Before(MaxFaults)

\* the process starts a run of ReportComment
BeginReportComment ==
    \E p \in DOMAIN run :
        /\ run[p].n < MaxAttempts
        /\ \E pjs \in StepBatches, mustCreate \in BOOLEAN : StartReportComment(p, pjs, mustCreate)

\* the process starts a run of Report
BeginReport ==
    \E p \in DOMAIN run :
        /\ run[p].n < MaxAttempts
        /\ \E pj \in StepReportJobs : StartReport(p, pj)

CreateStatus == \E p \in DOMAIN run : CallCreateStatus(p)
ListComments == \E p \in DOMAIN run : CallListComments(p)
BotUserChecker == \E p \in DOMAIN run : CallBotUserChecker(p)
DeleteComment == \E p \in DOMAIN run : CallDeleteComment(p)
PostComment == \E p \in DOMAIN run : CallPostComment(p)
NoteBotUserChecker == \E p \in DOMAIN run : CallNoteBotUserChecker(p)
NoteListComments == \E p \in DOMAIN run : CallNoteListComments(p)
NoteCreateComment == \E p \in DOMAIN run : CallNoteCreateComment(p)

NextSteps ==
    \/ BeginReportComment
    \/ BeginReport
    \/ CreateStatus
    \/ ListComments
    \/ BotUserChecker
    \/ DeleteComment
    \/ PostComment
    \/ NoteBotUserChecker
    \/ NoteListComments
    \/ NoteCreateComment

SpecSteps == InitSteps /\ [][NextSteps]_vars

(***************************************************************************)
(* SpecConcurrent: MaxProcs processes run ReportComment once each, their   *)
(* remote calls interleaved; the host fails no call but may refuse to      *)
(* delete or edit a comment it no longer holds.                            *)
(***************************************************************************)
ConcurrentBatches ==
    { <<PreJob(CtxBla, FailureState)>>,
      <<PreJob(CtxBla, SuccessState)>>,
      <<ProwJob(CtxBla, FailureState, PresubmitJob, TRUE, TRUE, RefsPull2, "absent", FALSE)>>,
      <<PostJob(CtxBla, FailureState, RefsPull2)>> }

InitConcurrent ==
    /\ issueComments \in {[n \in PullNumbers |-> IF n = Pull1.Number THEN h ELSE <<>>] :
                            h \in StepHistories}
    /\ commitComments = [s \in BaseSHAs |-> <<>>]
    /\ nextID = FirstNewID
    /\ calls = [p \in 1..MaxProcs |-> <<>>]
    /\ err = [p \in 1..MaxProcs |-> NoError]
    /\ run = [p \in 1..MaxProcs |-> Idle]
    /\ parsed = <<>>
    /\ prev = Before(0)

\* a process that has not run yet starts its run of ReportComment
BeginConcurrent ==
    \E p \in DOMAIN run :
        /\ run[p].pc = "idle"
        /\ \E pjs \in ConcurrentBatches, mustCreate \in BOOLEAN :
            StartReportComment(p, pjs, mustCreate)

NextConcurrent ==
    \/ BeginConcurrent
    \/ ListComments
    \/ BotUserChecker
    \/ DeleteComment
    \/ PostComment
    \/ NoteBotUserChecker
    \/ NoteListComments
    \/ NoteCreateComment

SpecConcurrent == InitConcurrent /\ [][NextConcurrent]_vars

(***************************************************************************)
(* Claims about failed remote calls and the order of calls (SpecSteps).    *)
(***************************************************************************)
\* the operations of the calls a process has issued, in order
Ops(p) == [k \in 1..Len(calls[p]) |-> calls[p][k].call.op]

\* C21: a remote call that fails (status, list, bot identity, delete, create or
\* edit) is the last call of its run, and the run has returned an error; after a
\* failed delete the run issues no delete, create or edit.
C21_FirstFailureEndsRun ==
    \A p \in DOMAIN run :
        \A k \in 1..Len(calls[p]) :
            ~calls[p][k].ok =>
                /\ k = Len(calls[p])
                /\ run[p].pc = "done"
                /\ err[p] # NoError

\* the first of two deletes has failed: the second delete and the create were
\* not attempted
C21_Witness ==
    /\ run[1].pc = "done"
    /\ run[1].pjs = <<PreJob(CtxBla, FailureState)>>
    /\ Ops(1) = <<"ListIssueComments", "BotUserChecker", "DeleteComment">>
    /\ ~calls[1][3].ok
    /\ Len(run[1].deletes) = 2
    /\ err[1] = WrapError("error deleting comment", ErrRemote("DeleteComment"))
    /\ OwnMarkedCount(issueComments[Pull1.Number]) = 2

FailureRunOn(p, number) ==
    /\ run[p].pc = "done"
    /\ err[p] = NoError
    /\ PresubmitPart(run[p].pjs) # <<>>
    /\ PresubmitPart(run[p].pjs)[1].Refs.Pulls[1].Number = number
    /\ FailedJobs(PresubmitPart(run[p].pjs)) # <<>>

\* C23: when two runs for batches with a failed job on the same pull both list
\* the comments before either posts, both create a report, and the pull is left
\* with two own+marked comments.
C23_ConcurrentRunsDuplicate ==
    \A p \in DOMAIN run : \A q \in DOMAIN run \ {p} : \A number \in PullNumbers :
        (/\ FailureRunOn(p, number) /\ FailureRunOn(q, number)
         /\ q \notin run[p].posted /\ p \notin run[q].posted
         /\ \A o \in DOMAIN run \ {p, q} : run[o].pc = "idle") =>
            /\ "CreateComment" \in Range(Ops(p))
            /\ "CreateComment" \in Range(Ops(q))
            /\ OwnMarkedCount(issueComments[number]) = 2
            /\ \A i \in 1..Len(issueComments[number]) :
                  OwnMarked(issueComments[number][i]) => issueComments[number][i].ID >= FirstNewID

\* two runs on pull 1, which had one report: both deleted it and both created
C23_Witness ==
    /\ FailureRunOn(1, Pull1.Number) /\ FailureRunOn(2, Pull1.Number)
    /\ run[1].posted = {} /\ run[2].posted = {}
    /\ Len(prev.issue[Pull1.Number]) = 1
    /\ Ops(1) = <<"ListIssueComments", "BotUserChecker", "DeleteComment", "CreateComment">>
    /\ Ops(2) = <<"ListIssueComments", "BotUserChecker", "DeleteComment", "CreateComment">>
    /\ OwnMarkedCount(issueComments[Pull1.Number]) = 2

\* the review units a run of ReportComment for a batch works on: the first pull
\* of its pre-merge jobs, the base commit of its post-merge jobs and the pull
\* that gets their one-time note
Touches(pjs) ==
    (IF PresubmitPart(pjs) # <<>> /\ Len(PresubmitPart(pjs)[1].Refs.Pulls) > 0
     THEN {<<"issue", PresubmitPart(pjs)[1].Refs.Pulls[1].Number>>} ELSE {})
    \cup (IF PostsubmitPart(pjs) # <<>>
          THEN {<<"commit", PostsubmitPart(pjs)[1].Refs.BaseSHA>>}
                 \cup (IF Len(PostsubmitPart(pjs)[1].Refs.Pulls) > 0
                       THEN {<<"issue", PostsubmitPart(pjs)[1].Refs.Pulls[1].Number>>} ELSE {})
          ELSE {})

\* the comments of a unit in a store
CommentsAt(G, u) == IF u[1] = "issue" THEN G.issue[u[2]] ELSE G.commit[u[2]]

\* the authors and bodies of a comment list (identifiers are given by the host
\* in the order of creation over all units)
Content(comments) ==
    [i \in 1..Len(comments) |-> [User |-> comments[i].User, Body |-> comments[i].Body]]

\* the run of process p, executed alone on the store before the first run
Alone(p) ==
    ReportCommentResult(Remote(prev.issue, prev.commit, FirstNewID), TRUE, "nil", run[p].pjs,
                        JobTypesToReport, run[p].mustCreate)

\* the call c of a run on the units us addresses one of these units: by pull
\* number, by commit, or by the identifier of a comment the unit held
OnOwnUnit(c, us) ==
    CASE c.op \in {"ListIssueComments", "CreateComment"} -> <<"issue", c.number>> \in us
      [] c.op \in {"ListCommitComments", "CreateCommitComment"} -> <<"commit", c.sha>> \in us
      [] c.op \in {"DeleteComment", "EditComment"} ->
            \E u \in us :
                \E i \in 1..Len(CommentsAt(Remote(prev.issue, prev.commit, FirstNewID), u)) :
                    CommentsAt(Remote(prev.issue, prev.commit, FirstNewID), u)[i].ID = c.id
      [] OTHER -> TRUE

\* every process has returned without error, and no two of them worked on a
\* common unit
RanOnDifferentUnits ==
    /\ \A p \in DOMAIN run : run[p].pc = "done" /\ err[p] = NoError
    /\ \A p \in DOMAIN run : \A q \in DOMAIN run \ {p} :
          Touches(run[p].pjs) \cap Touches(run[q].pjs) = {}

\* C24: when the interleaved runs work on different review units, every call of
\* a run addresses its own units, and each unit ends with the comments that the
\* runs of that unit produce when executed alone.
C24_UnitsIndependent ==
    RanOnDifferentUnits =>
        \A p \in DOMAIN run :
            \E us \in {Touches(run[p].pjs)}, alone \in {Alone(p)} :
                /\ \A k \in 1..Len(calls[p]) : OnOwnUnit(calls[p][k].call, us)
                /\ \A u \in us :
                      Content(CommentsAt(Store, u)) = Content(CommentsAt(alone.G, u))

\* a run on pull 1 and a post-merge run on the base commit with pull 2, their
\* calls interleaved: pull 1 lost its old report and got a new one, the commit
\* got a report and pull 2 the note
C24_Witness ==
    /\ RanOnDifferentUnits
    /\ run[1].pjs = <<PreJob(CtxBla, FailureState)>>
    /\ run[2].pjs = <<PostJob(CtxBla, FailureState, RefsPull2)>>
    /\ run[1].posted = {} /\ run[2].posted = {}
    /\ Len(prev.issue[Pull1.Number]) = 1
    /\ "DeleteComment" \in Range(Ops(1))
    /\ Len(issueComments[Pull1.Number]) = 1
    /\ Len(commitComments["base1"]) = 1
    /\ Len(issueComments[Pull2.Number]) = 1

\* The order of the calls of a run, as stages: "start", "status" (status set),
\* then for a part "listed", "known" (bot identity known, deletes under way) and
\* "posted"; the stages of the post-merge part carry the prefix "post-"; then
\* "note-known", "note-listed", "note-posted".  "out of order" is final.
ListOps == {"ListIssueComments", "ListCommitComments"}
PostOps == {"CreateComment", "CreateCommitComment", "EditComment"}

\* the stage after a call op at stage s, when a run may reconcile its pre-merge
\* part and then its post-merge part (twoParts), or one part only
NextStage(s, op, twoParts) ==
    CASE s = "start" /\ op = "CreateStatus" -> "status"
      [] s \in {"start", "status"} /\ op = "ListIssueComments" -> "listed"
      [] s \in {"start", "status"} /\ op = "ListCommitComments" -> "post-listed"
      [] s = "listed" /\ op = "BotUserChecker" -> "known"
      [] s = "known" /\ op = "DeleteComment" -> "known"
      [] s = "known" /\ op \in {"CreateComment", "EditComment"} -> "posted"
      [] twoParts /\ s \in {"known", "posted"} /\ op = "ListCommitComments" -> "post-listed"
      [] s = "post-listed" /\ op = "BotUserChecker" -> "post-known"
      [] s = "post-known" /\ op = "DeleteComment" -> "post-known"
      [] s = "post-known" /\ op \in {"CreateCommitComment", "EditComment"} -> "post-posted"
      [] s \in {"post-known", "post-posted"} /\ op = "BotUserChecker" -> "note-known"
      [] s = "note-known" /\ op = "ListIssueComments" -> "note-listed"
      [] s = "note-listed" /\ op = "CreateComment" -> "note-posted"
      [] OTHER -> "out of order"

RECURSIVE StageAfter(_, _, _, _)
StageAfter(ops, i, s, twoParts) ==
    IF i > Len(ops) THEN s
    ELSE StageAfter(ops, i + 1, NextStage(s, ops[i], twoParts), twoParts)

\* what the claim says of the status call of Report: it comes first, and when it
\* fails it is the only call
StatusFirst(p) ==
    /\ (run[p].pc # "idle" /\ run[p].viaReport /\ calls[p] # <<>>) => Ops(p)[1] = "CreateStatus"
    /\ (calls[p] # <<>> /\ Ops(p)[1] = "CreateStatus" /\ ~calls[p][1].ok) => Len(calls[p]) = 1

\* C25 as stated: the calls of a run are, in this order, list, bot identity, the
\* deletes, at most one create or edit, and for a post-merge batch the note
\* check; no delete follows a create or edit; the status call of Report comes
\* first and, failed, prevents every comment call.
C25_OneSequencePerRun ==
    \A p \in DOMAIN run :
        /\ StageAfter(Ops(p), 1, "start", FALSE) # "out of order"
        /\ \A j \in 1..Len(calls[p]) : \A k \in (j + 1)..Len(calls[p]) :
              ~(Ops(p)[j] \in PostOps /\ Ops(p)[k] = "DeleteComment")
        /\ StatusFirst(p)

\* C25 amended: the calls of a run are, for its pre-merge part and then for its
\* post-merge part, list, bot identity, the deletes, at most one create or edit,
\* and after the post-merge part the note check; within a part no delete follows
\* the create or edit; the status call of Report comes first and, failed,
\* prevents every comment call.
C25_OneSequencePerPart ==
    \A p \in DOMAIN run :
        /\ StageAfter(Ops(p), 1, "start", TRUE) # "out of order"
        /\ StatusFirst(p)

C25_Witness ==
    /\ run[1].pc = "done"
    /\ run[1].viaReport
    /\ Len(prev.issue[Pull1.Number]) = 2
    /\ Ops(1) = <<"CreateStatus", "ListIssueComments", "BotUserChecker", "DeleteComment",
                  "DeleteComment", "CreateComment">>
    /\ err[1] = NoError

\* a run for a batch of both kinds: the report of the pre-merge part is created,
\* then the stale report of the commit is deleted
C25_MixedBatchWitness ==
    /\ run[1].pc = "done"
    /\ err[1] = NoError
    /\ Ops(1) = <<"ListIssueComments", "BotUserChecker", "CreateComment",
                  "ListCommitComments", "BotUserChecker", "DeleteComment", "CreateCommitComment",
                  "BotUserChecker", "ListIssueComments">>

(***************************************************************************)
(* SpecNote: serial runs of ReportComment for post-merge jobs that refer   *)
(* to pull 1, for two base commits.  prev.ok tells that no run so far has  *)
(* returned an error.                                                      *)
(***************************************************************************)
MaxNoteRuns == 3

RefsBase2 == Refs("base2", <<Pull1>>)

\* pull 1 before the first run: no comment, or a comment of somebody else that
\* quotes the note
NoteHistories ==
    { <<>>,
      << [ID |-> FirstOldID + 1, User |-> HumanLogin,
          Body |-> <<prCommitNote, " ", "base0", NL>>] >> }

NoteBatches ==
    { <<PostJob(CtxBla, st, refs)>> : st \in {FailureState, SuccessState},
                                      refs \in {RefsOnePull, RefsBase2} }

InitNote ==
    /\ issueComments \in {[n \in PullNumbers |-> IF n = Pull1.Number THEN h ELSE <<>>] :
                            h \in NoteHistories}
    /\ commitComments = [s \in BaseSHAs |-> <<>>]
    /\ nextID = FirstNewID
    /\ calls = <<>>
    /\ err = NoError
    /\ run = NoRun
    /\ parsed = <<>>
    /\ prev = [valid |-> FALSE, ok |-> TRUE]

ReportCommentPostsubmit ==
    /\ run.n < MaxNoteRuns
    /\ \E pjs \in NoteBatches, mustCreate \in BOOLEAN :
        /\ Deliver("ReportCommentPostsubmit", pjs, "nil", mustCreate)
        /\ prev' = [valid |-> FALSE, ok |-> prev.ok /\ err' = NoError]

NextNote == ReportCommentPostsubmit

SpecNote == InitNote /\ [][NextNote]_vars

\* the comments of a list that the bot wrote and that hold the note text
BotNotes(comments) ==
    SelectSeq(comments, LAMBDA c : isBot(c.User) /\ Contains(c.Body, <<prCommitNote>>))

\* the calls of a log that create the note
NoteCreates(cs) ==
    SelectSeq(cs, LAMBDA c : c.op = "CreateComment" /\ Contains(c.body, <<prCommitNote>>))

\* C26: a post-merge run that succeeds, after post-merge runs that succeeded,
\* leaves exactly one comment of the bot with the note text on the pull; it
\* creates the note exactly when the pull held no such comment, and once.
C26_Step ==
    (IsRun /\ prev'.ok) =>
        /\ Len(BotNotes(issueComments'[Pull1.Number])) = 1
        /\ Len(NoteCreates(calls')) =
              (IF BotNotes(issueComments[Pull1.Number]) = <<>> THEN 1 ELSE 0)

C26_NoteOnce == [][C26_Step]_vars

\* three runs, the second and third for another base commit: one note, naming
\* the first base commit, beside the comment of somebody else that quotes it
C26_Witness ==
    /\ run.n = 3
    /\ prev.ok
    /\ run.pjs[1].Refs.BaseSHA = "base2"
    /\ Len(commitComments["base1"]) = 1
    /\ Len(commitComments["base2"]) >= 1
    /\ Len(issueComments[Pull1.Number]) = 2
    /\ BotNotes(issueComments[Pull1.Number])
         = << [ID |-> FirstNewID + 1, User |-> BotLogin,
               Body |-> <<prCommitNote, " ", "base1", NL>>] >>
    /\ NoteCreates(calls) = <<>>

(***************************************************************************)
(* SpecEdge: one call of ReportStatusContext or of ReportComment, with or  *)
(* without a client, for batches of up to MaxBatch jobs with the same      *)
(* refs: no pull, one pull or two pulls, pre-merge, post-merge (commenting *)
(* or not) and batch jobs, the empty batch included.                       *)
(***************************************************************************)
EdgeJobs ==
    { PreJob(CtxBla, FailureState), PreJob(CtxBla, SuccessState), PreJob(CtxFoo, FailureState),
      ProwJob(CtxBla, FailureState, PresubmitJob, TRUE, TRUE, RefsTwoPulls, "absent", FALSE),
      ProwJob(CtxBla, FailureState, PresubmitJob, TRUE, TRUE, RefsNoPull, "absent", FALSE),
      ProwJob(CtxBla, FailureState, PresubmitJob, FALSE, TRUE, RefsOnePull, "absent", FALSE),
      ProwJob(CtxBla, FailureState, BatchJob, TRUE, TRUE, RefsTwoPulls, "absent", FALSE),
      PostJob(CtxBla, FailureState, RefsOnePull), PostJob(CtxBla, SuccessState, RefsOnePull),
      PostJob(CtxBla, FailureState, RefsNoPull),
      ProwJob(CtxBla, FailureState, PostsubmitJob, TRUE, TRUE, RefsOnePull, "absent", FALSE),
      ProwJob(CtxBla, PendingState, PresubmitJob, TRUE, FALSE, RefsOnePull, "absent", FALSE),
      ProwJob(CtxBla, FailureState, PresubmitJob, TRUE, FALSE, RefsOnePull, "absent", FALSE) }

\* ReportComment requires the jobs of a batch to have the same refs
EdgeBatches ==
    { b \in UNION {[1..n -> EdgeJobs] : n \in 0..MaxBatch} :
        \A i \in 1..Len(b) : b[i].Refs = b[1].Refs }

InitEdge ==
    /\ issueComments \in {[n \in PullNumbers |-> IF n = Pull1.Number THEN h ELSE <<>>] :
                            h \in StepHistories}
    /\ commitComments = [s \in BaseSHAs |-> <<>>]
    /\ nextID = FirstNewID
    /\ calls = <<>>
    /\ err = NoError
    /\ run = NoRun
    /\ parsed = <<>>
    /\ prev = NoPrev

ReportStatusContextEdge ==
    /\ run = NoRun
    /\ \E ghc \in BOOLEAN, pj \in EdgeJobs, remoteOK \in BOOLEAN :
        \E r \in {reportStatusContextResult(ghc, pj, JobTypesToReport, remoteOK)} :
            /\ calls' = r.calls
            /\ err' = r.err
            /\ run' = [op |-> "ReportStatusContext", n |-> 1, ghc |-> ghc, pjs |-> <<pj>>,
                       mustCreate |-> FALSE]
    /\ UNCHANGED <<issueComments, commitComments, nextID, parsed, prev>>

ReportCommentEdge ==
    /\ run = NoRun
    /\ \E ghc \in BOOLEAN, pjs \in EdgeBatches, mustCreate \in BOOLEAN :
        \E o \in {ReportCommentResult(Store, ghc, "nil", pjs, JobTypesToReport, mustCreate)} :
            /\ issueComments' = o.G.issue
            /\ commitComments' = o.G.commit
            /\ nextID' = o.G.next
            /\ calls' = o.calls
            /\ err' = o.err
            /\ parsed' = o.parsed
            /\ run' = [op |-> "ReportComment", n |-> 1, ghc |-> ghc, pjs |-> pjs,
                       mustCreate |-> mustCreate]
    /\ UNCHANGED prev

NextEdge == ReportStatusContextEdge \/ ReportCommentEdge

SpecEdge == InitEdge /\ [][NextEdge]_vars

(***************************************************************************)
(* Claims about preconditions and post-merge jobs (SpecEdge).              *)
(***************************************************************************)
\* C27: without a client ReportStatusContext and ReportComment return an error
\* and issue no remote call; ReportComment on the empty batch issues no remote
\* call.
C27_NoClientNoCall ==
    /\ (run.op \in {"ReportStatusContext", "ReportComment"} /\ ~run.ghc) =>
          err # NoError /\ calls = <<>>
    /\ (run.op = "ReportComment" /\ run.pjs = <<>>) => calls = <<>>

C27_Witness ==
    /\ run.op = "ReportComment"
    /\ ~run.ghc
    /\ run.pjs = <<PreJob(CtxBla, FailureState), PreJob(CtxFoo, FailureState)>>
    /\ Len(issueComments[Pull1.Number]) = 2
    /\ err = ErrNoClient
    /\ calls = <<>>

\* the empty batch with a client: no call and no error
C27_EmptyBatchWitness ==
    /\ run.op = "ReportComment"
    /\ run.ghc
    /\ run.pjs = <<>>
    /\ err = NoError
    /\ calls = <<>>

\* a batch whose jobs carry more than one pull
MultiPull(pjs) == pjs # <<>> /\ \A i \in 1..Len(pjs) : Len(pjs[i].Refs.Pulls) > 1

\* C28 as stated: ReportComment issues no remote call for a batch whose jobs
\* carry more than one pull.
C28_MultiPullSkipped ==
    (run.op = "ReportComment" /\ MultiPull(run.pjs)) => calls = <<>>

\* a failed pre-merge job with two pulls: its report is created on the first
\* pull
C28_Witness ==
    /\ run.op = "ReportComment"
    /\ run.ghc
    /\ ~run.mustCreate
    /\ run.pjs = <<ProwJob(CtxBla, FailureState, PresubmitJob, TRUE, TRUE, RefsTwoPulls,
                           "absent", FALSE)>>
    /\ err = NoError
    /\ Len(calls) = 3
    /\ calls[1] = ListIssueCommentsCall(Pull1.Number)
    /\ calls[3].op = "CreateComment"
    /\ calls[3].number = Pull1.Number
    /\ Len(issueComments[Pull1.Number]) = 1

\* the status side does skip such a job
C28_StatusSkipsMultiPull ==
    (run.op = "ReportStatusContext" /\ MultiPull(run.pjs)) => calls = <<>>

\* the places of a call log that read or write commit comments
CommitCallsAt(cs) == {k \in 1..Len(cs) : cs[k].op \in {"ListCommitComments", "CreateCommitComment"}}

\* the places of a call log that create a commit comment
CommitCreatesAt(cs) == {k \in 1..Len(cs) : cs[k].op = "CreateCommitComment"}

\* the places of a call log that read or create issue comments
IssueCallsAt(cs) == {k \in 1..Len(cs) : cs[k].op \in {"ListIssueComments", "CreateComment"}}

\* whether a batch part has a first pull with the given number
FirstPullIs(part, number) ==
    part # <<>> /\ part[1].Refs.Pulls # <<>> /\ part[1].Refs.Pulls[1].Number = number

\* where ReportComment reads and writes: the post-merge part on the commit
\* comments of its base commit, the pre-merge part on the issue comments of its
\* first pull, the note on the first pull of the post-merge part; a post-merge
\* job whose config does not enable commenting is in no part
PostsubmitRouting ==
    run.op = "ReportComment" =>
        LET pre  == PresubmitPart(run.pjs)
            post == PostsubmitPart(run.pjs)
        IN  /\ \A k \in CommitCallsAt(calls) :
                  post # <<>> /\ calls[k].sha = post[1].Refs.BaseSHA
            /\ \A k \in IssueCallsAt(calls) :
                  IF calls[k].op = "CreateComment" /\ ~Contains(calls[k].body, <<commentTag>>)
                  THEN /\ FirstPullIs(post, calls[k].number)
                       /\ calls[k].body = <<prCommitNote, " ", post[1].Refs.BaseSHA, NL>>
                  ELSE FirstPullIs(pre, calls[k].number) \/ FirstPullIs(post, calls[k].number)
            /\ \A k \in ReportPostsAt(calls) :
                  \/ calls[k].op = "CreateCommitComment"
                  \/ calls[k].op \in {"CreateComment", "EditComment"} /\ pre # <<>>
            /\ (post # <<>> /\ run.ghc) =>
                  \E k \in 1..Len(calls) :
                      calls[k] = ListCommitCommentsCall(post[1].Refs.BaseSHA)
            /\ (pre # <<>> /\ pre[1].Refs.Pulls # <<>> /\ run.ghc) =>
                  calls[1] = ListIssueCommentsCall(pre[1].Refs.Pulls[1].Number)
            /\ \A s \in BaseSHAs :
                  (post = <<>> \/ post[1].Refs.BaseSHA # s) => commitComments[s] = <<>>

C29_SuccessWitness ==
    /\ run.op = "ReportComment"
    /\ run.ghc
    /\ ~run.mustCreate
    /\ run.pjs = <<PostJob(CtxBla, SuccessState, RefsOnePull)>>
    /\ err = NoError
    /\ calls[1] = ListCommitCommentsCall("base1")
    /\ CommitCreatesAt(calls) = {}
    /\ commitComments["base1"] = <<>>

\* a post-merge job whose config does not enable commenting: no call at all
C29_NotCommentingWitness ==
    /\ run.op = "ReportComment"
    /\ run.ghc
    /\ run.pjs = <<ProwJob(CtxBla, FailureState, PostsubmitJob, TRUE, TRUE, RefsOnePull,
                           "absent", FALSE)>>
    /\ err = NoError
    /\ calls = <<>>

(***************************************************************************)
(* Claims about the marker in posted bodies (SpecTemplate).                *)
(***************************************************************************)
\* the last line of a body
FinalLine(body) == LET ls == Split(body, <<NL>>) IN ls[Len(ls)]

\* whether a posted body is the one-time note
IsNote(body) == HasPrefix(body, <<prCommitNote>>)

\* the comments of the store, on all pulls and commits
StoredComments ==
    UNION ({Range(issueComments[n]) : n \in DOMAIN issueComments}
             \cup {Range(commitComments[s]) : s \in DOMAIN commitComments})

\* C30 as stated: every body that a run creates or edits has the marker as its
\* final line.
C30_EveryBodyEndsWithMarker ==
    JustTemplated => \A k \in PostsAt(calls) : FinalLine(calls[k].body) = <<commentTag>>

\* C30 (amended): every report that a run creates or edits has the marker as
\* its final line and is stored as an own+marked comment, which the next run's
\* parser recognises; the one-time note, the only other body a run creates,
\* carries no marker.
C30_EveryReportEndsWithMarker ==
    JustTemplated =>
        \A k \in PostsAt(calls) :
            IF IsNote(calls[k].body)
            THEN /\ calls[k].op = "CreateComment"
                 /\ ~Contains(calls[k].body, <<commentTag>>)
            ELSE /\ FinalLine(calls[k].body) = <<commentTag>>
                 /\ \E c \in StoredComments : c.Body = calls[k].body /\ OwnMarked(c)

\* a run with a template that creates a report of a failed pre-merge job
C30_Witness ==
    /\ JustTemplated
    /\ run.reportTemplate = "context"
    /\ err = NoError
    /\ \E k \in PostsAt(calls) :
          /\ calls[k].op = "CreateComment"
          /\ ~IsNote(calls[k].body)
          /\ FinalLine(calls[k].body) = <<commentTag>>
          /\ TemplateLines(calls[k].body) # {}

\* a run that edits the latest report
C30_EditWitness ==
    /\ JustTemplated
    /\ err = NoError
    /\ \E k \in PostsAt(calls) :
          calls[k].op = "EditComment" /\ FinalLine(calls[k].body) = <<commentTag>>

\* a run that creates a report on the commit and the note on the pull
C30_NoteWitness ==
    /\ JustTemplated
    /\ err = NoError
    /\ \E k \in PostsAt(calls) : calls[k].op = "CreateCommitComment"
    /\ \E k \in PostsAt(calls) : IsNote(calls[k].body)

(***************************************************************************)
(* Claims about the identifiers the parser returns (SpecParse).            *)
(***************************************************************************)
\* C31 as stated: for every comment list and every identifier value, the last
\* own+marked comment is the parser's latest (the update target, or a member of
\* the deletion set when the parser gives it up) and the identifier of every
\* other own+marked comment is in the deletion set, whatever the batch.
C31_LatestAndPrevious ==
    JustParsed =>
        LET ids == OwnMarkedIDs(parsed[1].ics)
            n   == Len(ids)
        IN  n > 0 =>
              /\ parsed[1].updateID = ids[n] \/ ids[n] \in Range(parsed[1].deletes)
              /\ \A i \in 1..(n - 1) : ids[i] \in Range(parsed[1].deletes)

\* two reports of the bot, the first with identifier 0, and the empty batch:
\* the first report is not in the deletion set
C31_Witness ==
    /\ JustParsed
    /\ parsed[1].pjs = <<>>
    /\ parsed[1].ics = << [ID |-> 0, User |-> BotLogin, Body |-> BodyBlaFoo],
                          [ID |-> FirstOldID + 2, User |-> BotLogin, Body |-> BodyFoo] >>
    /\ parsed[1].deletes = <<>>
    /\ parsed[1].updateID = FirstOldID + 2

\* for non-zero identifiers the statement holds
C31_NonZeroIdentifiers ==
    (JustParsed /\ \A i \in 1..Len(parsed[1].ics) : parsed[1].ics[i].ID # 0) =>
        LET ids == OwnMarkedIDs(parsed[1].ics)
            n   == Len(ids)
        IN  n > 0 =>
              /\ parsed[1].updateID = ids[n] \/ ids[n] \in Range(parsed[1].deletes)
              /\ \A i \in 1..(n - 1) : ids[i] \in Range(parsed[1].deletes)

(***************************************************************************)
(* SpecRerun: a batch is delivered to ReportComment (process 1) and, once  *)
(* that run has returned, delivered again (process 2); the host fails up   *)
(* to MaxFaults calls.                                                     *)
(***************************************************************************)
RerunBatches ==
    { <<PreJob(CtxBla, FailureState)>>,
      <<PreJob(CtxFoo, FailureState)>>,
      <<PreJob(CtxBla, SuccessState)>> }

InitRerun ==
    /\ issueComments \in {[n \in PullNumbers |-> IF n = Pull1.Number THEN h ELSE <<>>] :
                            h \in StepHistories}
    /\ commitComments = [s \in BaseSHAs |-> <<>>]
    /\ nextID = FirstNewID
    /\ calls = [p \in {1, 2} |-> <<>>]
    /\ err = [p \in {1, 2} |-> NoError]
    /\ run = [p \in {1, 2} |-> Idle]
    /\ parsed = <<>>
    /\ prev = Before(MaxFaults)

\* the first delivery of a batch
BeginFirstRun ==
    /\ run[1].pc = "idle"
    /\ \E pjs \in RerunBatches, mustCreate \in BOOLEAN : StartReportComment(1, pjs, mustCreate)

\* the same batch is delivered again after the first run has returned
BeginRerun ==
    /\ run[1].pc = "done"
    /\ run[2].pc = "idle"
    /\ StartReportComment(2, run[1].pjs, run[1].mustCreate)

NextRerun ==
    \/ BeginFirstRun
    \/ BeginRerun
    \/ ListComments
    \/ BotUserChecker
    \/ DeleteComment
    \/ PostComment

SpecRerun == InitRerun /\ [][NextRerun]_vars

(***************************************************************************)
(* Claims about a run repeated after an abort (SpecRerun).                 *)
(***************************************************************************)
\* the places of a call log with a DeleteComment of the given result
DeletesAt(cs, ok) == {k \in 1..Len(cs) : cs[k].call.op = "DeleteComment" /\ cs[k].ok = ok}

\* the run that issued cs was ended by a failed delete after a successful one
AbortedByDelete(cs) == DeletesAt(cs, TRUE) # {} /\ Len(cs) \in DeletesAt(cs, FALSE)

\* a failed delete ended the first run after a successful one, and the second
\* run, with the same batch, has returned without error
RerunAfterPartialDeletes ==
    /\ run[1].pc = "done"
    /\ AbortedByDelete(calls[1])
    /\ run[2].pc = "done"
    /\ err[2] = NoError

\* the rows one run without failed call would have left, from the comments
\* the first run found
UninterruptedRows ==
    parseIssueComments(PresubmitPart(run[1].pjs), prev.issue[Pull1.Number]).entries

\* C32 as stated: after a run that a failed delete ended when some of its
\* deletes had succeeded, a run with the same batch and without failed call
\* leaves a report with the rows a single run without failed call would have
\* left from the first history.
C32_RerunPreservesRows ==
    RerunAfterPartialDeletes =>
        HistoricalEntries(issueComments[Pull1.Number]) = UninterruptedRows

\* two reports, rows bla and foo in the first, foo in the second, and a failed
\* job foo: the first run deletes the first report and fails to delete the
\* second; the second run leaves a report without the row of bla
C32_Witness ==
    /\ RerunAfterPartialDeletes
    /\ run[1].pjs = <<PreJob(CtxFoo, FailureState)>>
    /\ Len(prev.issue[Pull1.Number]) = 2
    /\ Len(calls[1]) = 4
    /\ calls[1][3] = [call |-> DeleteCommentCall(FirstOldID + 1), ok |-> TRUE]
    /\ calls[1][4] = [call |-> DeleteCommentCall(FirstOldID + 2), ok |-> FALSE]
    /\ UninterruptedRows
         = <<Row(CtxBla, <<"v1">>), createEntry(PreJob(CtxFoo, FailureState))>>
    /\ HistoricalEntries(issueComments[Pull1.Number])
         = <<createEntry(PreJob(CtxFoo, FailureState))>>

\* a first run that ended before its first delete loses nothing
C32_AbortBeforeDeletes ==
    (/\ run[1].pc = "done"
     /\ err[1] # NoError
     /\ DeletesAt(calls[1], TRUE) = {}
     /\ \A k \in 1..Len(calls[1]) : calls[1][k].call.op \notin {"CreateComment", "EditComment"}
     /\ run[2].pc = "done"
     /\ err[2] = NoError) =>
        HistoricalEntries(issueComments[Pull1.Number]) = UninterruptedRows

(***************************************************************************)
(* Claims about forced creation (SpecTemplate).                            *)
(***************************************************************************)
\* the first line of the report that says that all tests passed
PassedLine(pjs) == <<"@", commentAuthor(pjs), ": all tests **passed!**">>

\* a run of ReportComment with the force flag that returns no error, on a pull
\* whose reports have non-zero identifiers, and whose pre-merge part ends with
\* an empty entry list
ForcedOnEmptyList ==
    /\ run = NoRun
    /\ run'.op = "ReportCommentTemplate"
    /\ run'.mustCreate
    /\ err' = NoError
    /\ PresubmitPart(run'.pjs) # <<>>
    /\ NonZeroIDs(issueComments[Pull1.Number])
    /\ parsed'[1].entries = <<>>

\* C33: with the force flag and an empty final entry list the run deletes
\* every own+marked comment it listed, then creates one comment, the report
\* that all tests passed, and edits nothing.
C33_Step ==
    ForcedOnEmptyList =>
        LET ids   == OwnMarkedIDs(issueComments[Pull1.Number])
            n     == Len(ids)
            lines == Split(calls'[n + 3].body, <<NL>>)
        IN  /\ Len(calls') >= n + 3
            /\ calls'[1] = ListIssueCommentsCall(Pull1.Number)
            /\ calls'[2] = BotUserCheckerCall
            /\ \A i \in 1..n : calls'[i + 2] = DeleteCommentCall(ids[i])
            /\ calls'[n + 3].op = "CreateComment"
            /\ calls'[n + 3].number = Pull1.Number
            /\ lines[1] = PassedLine(PresubmitPart(run'.pjs))
            /\ \A k \in 1..Len(lines) : ~HasPrefix(lines[k], Divider)
            /\ lines[Len(lines)] = <<commentTag>>
            /\ \A k \in 1..Len(calls') :
                  /\ calls'[k].op # "EditComment"
                  /\ (calls'[k].op = "CreateComment" /\ k # n + 3) => IsNote(calls'[k].body)
            /\ OwnMarkedIDs(issueComments'[Pull1.Number]) = <<nextID>>

CompleteAndReportable(pj) == pj.Complete /\ ShouldReport(pj, JobTypesToReport)

\* the places of a batch whose job is left out and shares its context with no
\* job that is complete and reportable
LeftOutAt(pjs) ==
    {i \in 1..Len(pjs) :
        /\ ~CompleteAndReportable(pjs[i])
        /\ \A j \in 1..Len(pjs) :
              CompleteAndReportable(pjs[j]) => pjs[j].Context # pjs[i].Context}

\* the rows with key ctx that a list of rows holds last
LastRowsOf(rows, ctx) ==
    {rows[i] : i \in {i \in 1..Len(rows) :
                        /\ entryKey(rows[i]) = ctx
                        /\ \A j \in (i + 1)..Len(rows) : entryKey(rows[j]) # ctx}}

\* the rows of the reports a call log creates or edits
PostedRows(cs) ==
    UNION {Range(scanLines(Split(cs[k].body, <<NL>>), FALSE, <<>>)) : k \in ReportPostsAt(cs)}

\* C34: a job that is not complete or not report-eligible produces no row and
\* supersedes no historical row with its context, and a batch without complete
\* and reportable job issues no call and leaves the store as it was.
C34_Step ==
    (run = NoRun /\ run'.op = "ReportComment" /\ run'.ghc) =>
        /\ \A i \in LeftOutAt(run'.pjs) :
              /\ createEntry(run'.pjs[i]) \notin PostedRows(calls')
              /\ LastRowsOf(HistoricalEntries(issueComments[Pull1.Number]), run'.pjs[i].Context)
                    \subseteq Range(HistoricalEntries(issueComments'[Pull1.Number]))
        /\ (\A i \in 1..Len(run'.pjs) : ~CompleteAndReportable(run'.pjs[i])) =>
              /\ calls' = <<>>
              /\ err' = NoError
              /\ issueComments' = issueComments
              /\ commitComments' = commitComments

C34_OnlyCompleteReportable == [][C34_Step]_vars

\* a failed job that is not complete next to a failed job foo, on a pull with
\* a report that has a row of bla: the new report has the old row of bla
C34_Witness ==
    /\ run.op = "ReportComment"
    /\ run.ghc
    /\ run.pjs = <<ProwJob(CtxBla, FailureState, PresubmitJob, TRUE, FALSE, RefsOnePull,
                           "absent", FALSE),
                   PreJob(CtxFoo, FailureState)>>
    /\ err = NoError
    /\ Len(parsed) = 1
    /\ parsed[1].entries = <<Row(CtxBla, <<"v1">>), createEntry(PreJob(CtxFoo, FailureState))>>
    /\ calls[Len(calls)].op = "CreateComment"

\* a batch of jobs that are not complete: no call
C34_NoJobWitness ==
    /\ run.op = "ReportComment"
    /\ run.ghc
    /\ Len(run.pjs) = 2
    /\ \A i \in 1..2 : ~run.pjs[i].Complete
    /\ Len(issueComments[Pull1.Number]) = 2
    /\ calls = <<>>

(***************************************************************************)
(* Claims about the result of the parser (SpecParse).                      *)
(***************************************************************************)
\* whether a sequence holds no element twice
NoRepeat(s) == \A i, j \in 1..Len(s) : s[i] = s[j] => i = j

\* the identifiers of the comments of a list
ListedIDs(ics) == [i \in 1..Len(ics) |-> ics[i].ID]

\* C35: a non-zero update target is not in the deletion set and comes with a
\* non-empty entry list and no fresh row of a failed job; the deletion set
\* holds no identifier twice when the listed identifiers are distinct.
C35_ResultWellFormed ==
    JustParsed =>
        LET p == parsed[1]
        IN  /\ p.updateID # 0 =>
                  /\ p.updateID \notin Range(p.deletes)
                  /\ p.entries # <<>>
                  /\ FailedJobs(p.pjs) = <<>>
                  /\ ~p.createNewComment
            /\ NoRepeat(ListedIDs(p.ics)) => NoRepeat(p.deletes)

\* two reports and a batch without failure that leaves a row: the first is
\* deleted, the second is the update target
C35_Witness ==
    /\ JustParsed
    /\ Len(parsed[1].ics) = 2
    /\ NoRepeat(ListedIDs(parsed[1].ics))
    /\ parsed[1].pjs = <<PreJob(CtxBla, SuccessState)>>
    /\ parsed[1].deletes = <<FirstOldID + 1>>
    /\ parsed[1].updateID = FirstOldID + 2
    /\ parsed[1].entries # <<>>

(***************************************************************************)
(* SpecRoundTrip: createComment on a list of rows with distinct keys, then *)
(* parseIssueComments on the one comment of the bot with that body and a   *)
(* batch that shares no context with the rows and has no failed job.       *)
(***************************************************************************)
CtxOther == <<"other">>

\* rows: historical rows, a fresh row, and rows with white space around them
RoundTripRows ==
    { Row(CtxBla, <<"v1">>), Row(CtxFoo, <<"v2">>), createEntry(PreJob(CtxFoo, FailureState)),
      <<" ">> \o Row(<<"pad">>, <<"v3">>), Row(<<"cr">>, <<"v4">>) \o <<"\r">> }

\* lists of non-blank rows that do not start with the divider and have
\* pairwise distinct keys
RoundTripEntries ==
    { es \in UNION {[1..n -> RoundTripRows] : n \in 0..MaxEntries} :
        \A i, j \in 1..Len(es) : entryKey(es[i]) = entryKey(es[j]) => i = j }

\* the batch the report is rendered for: pre-merge or post-merge
RoundTripRendered ==
    {<<PreJob(CtxBla, FailureState)>>, <<PostJob(CtxBla, FailureState, RefsOnePull)>>}

\* the batch of the next run
RoundTripBatches == {<<>>, <<PreJob(CtxOther, SuccessState)>>}

InitRoundTrip ==
    /\ InitRemote
    /\ calls = <<>>
    /\ err = NoError
    /\ parsed = <<>>
    /\ prev = NoPrev
    /\ run \in [op : {"input"}, reportTemplate : {"nil", "context"}, pjs : RoundTripRendered,
                 entries : RoundTripEntries, batch : RoundTripBatches,
                 id : {FirstOldID + 1, FirstOldID + 2}]

\* createComment, then parseIssueComments on the comment the host holds
CallRoundTrip ==
    /\ run.op = "input"
    /\ \E c \in {createComment(run.reportTemplate, run.pjs, run.entries)} :
       \E p \in {parseIssueComments(run.batch,
                    << [ID |-> run.id, User |-> BotLogin, Body |-> c.comment] >>)} :
          /\ parsed' = << [comment |-> c.comment, deletes |-> p.deletes,
                            entries |-> p.entries, updateID |-> p.updateID] >>
          /\ err' = c.err
    /\ run' = [run EXCEPT !.op = "roundTrip"]
    /\ UNCHANGED <<issueComments, commitComments, nextID, calls, prev>>

NextRoundTrip == CallRoundTrip

SpecRoundTrip == InitRoundTrip /\ [][NextRoundTrip]_vars

(***************************************************************************)
(* Claims about the round trip (SpecRoundTrip).                            *)
(***************************************************************************)
JustRoundTripped == run.op = "roundTrip"

\* the parser returns the rendered rows, the comment as update target and no
\* deletion
RoundTrips ==
    /\ parsed[1].entries = run.entries
    /\ parsed[1].updateID = run.id
    /\ parsed[1].deletes = <<>>

\* C36 as stated: for every list of non-blank rows that do not start with the
\* divider and have distinct keys, and every batch kind, the parser returns
\* the rendered list in order, the comment as update target and an empty
\* deletion set.
C36_RoundTripEveryList == JustRoundTripped => RoundTrips

\* rows as the parser returns them: without white space at either end
Trimmed(es) == \A i \in 1..Len(es) : TrimSpace(es[i]) = es[i]

\* C36 (amended): the round trip holds for every non-empty list of such rows
\* that have no white space at either end; the rows come back trimmed
\* otherwise, and for the empty list the comment is in the deletion set and
\* there is no update target.
C36_RoundTripTrimmedNonEmpty ==
    JustRoundTripped =>
        /\ (run.entries # <<>> /\ Trimmed(run.entries)) => RoundTrips
        /\ run.entries # <<>> =>
              /\ parsed[1].entries = [i \in 1..Len(run.entries) |-> TrimSpace(run.entries[i])]
              /\ parsed[1].updateID = run.id
              /\ parsed[1].deletes = <<>>
        /\ run.entries = <<>> =>
              /\ parsed[1].entries = <<>>
              /\ parsed[1].updateID = 0
              /\ parsed[1].deletes = <<run.id>>

\* a post-merge report with a historical and a fresh row comes back as it was
C36_Witness ==
    /\ JustRoundTripped
    /\ run.pjs = <<PostJob(CtxBla, FailureState, RefsOnePull)>>
    /\ run.reportTemplate = "context"
    /\ run.batch = <<PreJob(CtxOther, SuccessState)>>
    /\ run.entries = <<Row(CtxBla, <<"v1">>), createEntry(PreJob(CtxFoo, FailureState))>>
    /\ RoundTrips

\* the report of the empty list is staged for deletion
C36_EmptyListWitness ==
    /\ JustRoundTripped
    /\ run.entries = <<>>
    /\ parsed[1].deletes = <<run.id>>
    /\ parsed[1].updateID = 0

(***************************************************************************)
(* Claims about stale commit comments (SpecNote).                          *)
(***************************************************************************)
\* C37 as stated: after serial post-merge runs without error, a base commit
\* carries at most one commit comment of the bot with the marker.
C37_AtMostOneCommitReport ==
    prev.ok => \A s \in BaseSHAs : OwnMarkedCount(commitComments[s]) <= 1

\* two runs for a failed post-merge job on the same base commit: the second
\* run hands the identifier of the first report to DeleteComment, which
\* deletes issue comments, and creates a second report on the commit
C37_Witness ==
    /\ run.n = 2
    /\ prev.ok
    /\ run.pjs = <<PostJob(CtxBla, FailureState, RefsOnePull)>>
    /\ Len(calls) >= 4
    /\ calls[1] = ListCommitCommentsCall("base1")
    /\ calls[3] = DeleteCommentCall(commitComments["base1"][1].ID)
    /\ calls[4].op = "CreateCommitComment"
    /\ OwnMarkedCount(commitComments["base1"]) = 2
    /\ issueComments[Pull1.Number] \in {h \o BotNotes(issueComments[Pull1.Number]) :
                                          h \in NoteHistories}

(***************************************************************************)
(* GKE versions (kubetest/util.go).  A version string is a sequence of     *)
(* tokens: decimal digits, ".", "v" and the token "-gke".                  *)
(***************************************************************************)
MaxVersions == 3

Digits == <<"0", "1", "2", "3", "4", "5", "6", "7", "8", "9">>

IsDigit(t) == \E k \in 1..10 : Digits[k] = t

DigitValue(t) == (CHOOSE k \in 1..10 : Digits[k] = t) - 1

\* strconv.Atoi on a sequence of digits
RECURSIVE Atoi(_)
Atoi(ds) == IF ds = <<>> THEN 0 ELSE 10 * Atoi(SubSeq(ds, 1, Len(ds) - 1)) + DigitValue(ds[Len(ds)])

\* %d
RECURSIVE Itoa(_)
Itoa(n) == IF n < 10 THEN <<Digits[n + 1]>> ELSE Append(Itoa(n \div 10), Digits[(n % 10) + 1])

\* the length of the run of digits of s that starts at place i
RECURSIVE DigitRun(_, _)
DigitRun(s, i) == IF i <= Len(s) /\ IsDigit(s[i]) THEN 1 + DigitRun(s, i + 1) ELSE 0

\* "." of the regular expression: any one character
AnyAt(s, i) == i <= Len(s) /\ s[i] # "-gke"

\* the matches of ([0-9]+).([0-9]+).([0-9]+)-gke.([0-9]+) in s: the place where
\* the match starts and the lengths of the four groups; the last group is as
\* long as the digits go
gkeMatches(s) ==
    UNION { UNION { UNION {
        { <<i, a, b, c, DigitRun(s, i + a + b + c + 4)>> :
            c \in { c \in 1..DigitRun(s, i + a + b + 2) :
                      /\ i + a + b + c + 2 <= Len(s)
                      /\ s[i + a + b + c + 2] = "-gke"
                      /\ AnyAt(s, i + a + b + c + 3)
                      /\ DigitRun(s, i + a + b + c + 4) > 0 } }
        : b \in { b \in 1..DigitRun(s, i + a + 1) : AnyAt(s, i + a + 1 + b) } }
        : a \in { a \in 1..DigitRun(s, i) : AnyAt(s, i + a) } }
        : i \in 1..Len(s) }

\* whether match m comes before match n in the search: it starts further left,
\* or its groups are longer, the first group first
MatchedBefore(m, n) ==
    \E k \in 1..4 :
        /\ \A j \in 1..(k - 1) : m[j] = n[j]
        /\ IF k = 1 THEN m[1] < n[1] ELSE m[k] > n[k]

\* re.FindStringSubmatch: the match the search finds first
FindStringSubmatch(s) ==
    CHOOSE m \in gkeMatches(s) : \A n \in gkeMatches(s) : n = m \/ MatchedBefore(m, n)

\* parseGkeVersion: ok is FALSE when the string does not match
parseGkeVersion(s) ==
    IF gkeMatches(s) = {} THEN [ok |-> FALSE, major |-> 0, minor |-> 0, patch |-> 0, gkePatch |-> 0]
    ELSE LET m == FindStringSubmatch(s)
             g1 == m[1]
             g2 == g1 + m[2] + 1
             g3 == g2 + m[3] + 1
             g4 == g3 + m[4] + 2
         IN  [ok |-> TRUE,
              major |-> Atoi(SubSeq(s, g1, g1 + m[2] - 1)),
              minor |-> Atoi(SubSeq(s, g2, g2 + m[3] - 1)),
              patch |-> Atoi(SubSeq(s, g3, g3 + m[4] - 1)),
              gkePatch |-> Atoi(SubSeq(s, g4, g4 + m[5] - 1))]

\* a comparison that does not look at the minor version
greaterIgnoresMinor(g, o) ==
    IF g.major # o.major THEN g.major > o.major
    ELSE IF g.patch # o.patch THEN g.patch > o.patch
    ELSE g.gkePatch > o.gkePatch

\* gkeVersion.greater
greater(g, o) ==
    IF g.major # o.major THEN g.major > o.major
    ELSE IF g.minor # o.minor THEN g.minor > o.minor
    ELSE IF g.patch # o.patch THEN g.patch > o.patch
    ELSE g.gkePatch > o.gkePatch

\* gkeVersion.String
gkeVersionString(g) ==
    Itoa(g.major) \o <<".">> \o Itoa(g.minor) \o <<".">> \o Itoa(g.patch)
        \o <<"-gke", ".">> \o Itoa(g.gkePatch)

\* sort.Slice with greater as "less": v put in place among the sorted vs
RECURSIVE sortInsert(_, _)
sortInsert(vs, v) ==
    IF vs = <<>> THEN <<v>>
    ELSE IF greater(v, Head(vs)) THEN <<v>> \o vs
    ELSE <<Head(vs)>> \o sortInsert(Tail(vs), v)

RECURSIVE sortSlice(_)
sortSlice(v) == IF v = <<>> THEN <<>> ELSE sortInsert(sortSlice(Tail(v)), Head(v))

ErrNoVersions == <<"channel doest not have valid versions">>
ErrParse == <<"Could not parse gke version with regex">>

getGKELatestChannelVersion(raw) ==
    IF Len(raw) = 0 THEN [out |-> <<>>, err |-> ErrNoVersions]
    ELSE IF \E i \in 1..Len(raw) : ~parseGkeVersion(raw[i]).ok
    THEN [out |-> <<>>, err |-> ErrParse]
    ELSE LET v == [i \in 1..Len(raw) |-> parseGkeVersion(raw[i])]
         IN  [out |-> gkeVersionString(sortSlice(v)[1]), err |-> NoError]

\* what gcloud prints for a list of valid master versions
gcloudOutput(versions) == Join(versions, <<";">>) \o <<NL>>

ErrNoRelease == <<"cannot find valid gke release">>

\* the loop of getLatestGKEVersion: the first version with the prefix
RECURSIVE latestValid(_, _)
latestValid(versions, releasePrefix) ==
    IF versions = <<>> THEN <<>>
    ELSE IF HasPrefix(Head(versions), releasePrefix) THEN Head(versions)
    ELSE latestValid(Tail(versions), releasePrefix)

\* getLatestGKEVersion from the output res of gcloud on
getLatestGKEVersion(res, releasePrefix) ==
    LET found == latestValid(Split(TrimSpace(res), <<";">>), releasePrefix)
    IN  IF found = <<>> THEN [out |-> <<>>, err |-> ErrNoRelease]
        ELSE [out |-> <<"v">> \o found, err |-> NoError]

(***************************************************************************)
(* SpecGKE: getGKELatestChannelVersion and getLatestGKEVersion applied to  *)
(* lists of up to MaxVersions version strings, in every order.             *)
(***************************************************************************)
V1_2_3_gke4 == <<"1", ".", "2", ".", "3", "-gke", ".", "4">>
V1_20_3_gke1 == <<"1", ".", "2", "0", ".", "3", "-gke", ".", "1">>
V1_2_10_gke0 == <<"1", ".", "2", ".", "1", "0", "-gke", ".", "0">>
V1_2_3_gke10 == <<"1", ".", "2", ".", "3", "-gke", ".", "1", "0">>
V2_0_0_gke0 == <<"2", ".", "0", ".", "0", "-gke", ".", "0">>

\* version strings: five of the form the host lists, one with a leading "v" and
\* one without the gke part
GkeRaw ==
    { V1_2_3_gke4, V1_20_3_gke1, V1_2_10_gke0, V1_2_3_gke10, V2_0_0_gke0,
      <<"v">> \o V1_2_3_gke4, <<"1", ".", "2", ".", "3">> }

GkeLists == UNION {[1..n -> GkeRaw] : n \in 0..MaxVersions}

ReleasePrefixes == { <<>>, <<"1", ".", "2">>, <<"1", ".", "2", "0">>, <<"3">> }

InitGKE ==
    /\ InitRemote
    /\ calls = <<>>
    /\ err = NoError
    /\ parsed = <<>>
    /\ prev = NoPrev
    /\ run \in [op : {"input"}, raw : GkeLists, releasePrefix : ReleasePrefixes]

CallGetGKELatestChannelVersion ==
    /\ run.op = "input"
    /\ \E r \in {getGKELatestChannelVersion(run.raw)} :
          /\ parsed' = <<r.out>>
          /\ err' = r.err
    /\ run' = [run EXCEPT !.op = "getGKELatestChannelVersion"]
    /\ UNCHANGED <<issueComments, commitComments, nextID, calls, prev>>

\* gcloud lists run.raw as the valid master versions
CallGetLatestGKEVersion ==
    /\ run.op = "input"
    /\ \E r \in {getLatestGKEVersion(gcloudOutput(run.raw), run.releasePrefix)} :
          /\ parsed' = <<r.out>>
          /\ err' = r.err
    /\ run' = [run EXCEPT !.op = "getLatestGKEVersion"]
    /\ UNCHANGED <<issueComments, commitComments, nextID, calls, prev>>

NextGKE == CallGetGKELatestChannelVersion \/ CallGetLatestGKEVersion

SpecGKE == InitGKE /\ [][NextGKE]_vars

(***************************************************************************)
(* Claims about GKE versions (SpecGKE).                                    *)
(***************************************************************************)
\* the lexicographic order on (major, minor, patch, gkePatch)
LexGreater(g, o) ==
    LET a == <<g.major, g.minor, g.patch, g.gkePatch>>
        b == <<o.major, o.minor, o.patch, o.gkePatch>>
    IN  \E k \in 1..4 : (\A j \in 1..(k - 1) : a[j] = b[j]) /\ a[k] > b[k]

\* the versions of a list, parsed
ParsedVersions(raw) == {parseGkeVersion(raw[i]) : i \in 1..Len(raw)}

AllParse(raw) == \A v \in ParsedVersions(raw) : v.ok

\* the lists with the elements of raw in another order
Reordered(raw) ==
    {[i \in 1..Len(raw) |-> raw[f[i]]] : f \in Permutations(1..Len(raw))}

\* C38: getGKELatestChannelVersion returns an error for the empty list and for
\* a list with a string that does not parse, and otherwise the greatest version
\* of the list in the lexicographic order, whatever the order of the list;
\* greater is irreflexive, asymmetric, transitive and total.
C38_GreatestVersion ==
    run.op = "getGKELatestChannelVersion" =>
        /\ (run.raw = <<>> \/ ~AllParse(run.raw)) => (err # NoError /\ parsed[1] = <<>>)
        /\ (run.raw # <<>> /\ AllParse(run.raw)) =>
              /\ err = NoError
              /\ \E g \in ParsedVersions(run.raw) :
                    /\ parsed[1] = gkeVersionString(g)
                    /\ \A o \in ParsedVersions(run.raw) : ~LexGreater(o, g)
        /\ \A other \in Reordered(run.raw) :
              getGKELatestChannelVersion(other).out = parsed[1]
        /\ \A x, y, z \in {v \in ParsedVersions(run.raw) : v.ok} :
              /\ ~greater(x, x)
              /\ greater(x, y) => ~greater(y, x)
              /\ (greater(x, y) /\ greater(y, z)) => greater(x, z)
              /\ x # y => (greater(x, y) \/ greater(y, x))
              /\ greater(x, y) <=> LexGreater(x, y)

\* three versions that differ in minor version, patch and gke patch, the
\* greatest in the middle, one with a leading "v"
C38_Witness ==
    /\ run.op = "getGKELatestChannelVersion"
    /\ run.raw = << <<"v">> \o V1_2_3_gke4, V1_20_3_gke1, V1_2_10_gke0 >>
    /\ err = NoError
    /\ parsed[1] = V1_20_3_gke1

\* a list with a string that does not parse: an error
C38_ErrorWitness ==
    /\ run.op = "getGKELatestChannelVersion"
    /\ run.raw = << V2_0_0_gke0, <<"1", ".", "2", ".", "3">> >>
    /\ err = ErrParse

\* the places of the versions of a list that start with the prefix
WithPrefix(raw, releasePrefix) == {i \in 1..Len(raw) : HasPrefix(raw[i], releasePrefix)}

\* whether no version of a list is older than one listed after it
Descending(raw) ==
    \A i, j \in 1..Len(raw) :
        i < j => ~LexGreater(parseGkeVersion(raw[j]), parseGkeVersion(raw[i]))

\* C39 as stated: getLatestGKEVersion returns "v" and the newest of the listed
\* versions that start with the prefix, and an error when none does.
C39_ReturnsNewest ==
    (run.op = "getLatestGKEVersion" /\ AllParse(run.raw)) =>
        LET with == WithPrefix(run.raw, run.releasePrefix)
        IN  /\ with = {} => err # NoError
            /\ with # {} =>
                  /\ err = NoError
                  /\ \E i \in with :
                        /\ parsed[1] = <<"v">> \o run.raw[i]
                        /\ \A j \in with : ~LexGreater(parseGkeVersion(run.raw[j]),
                                                       parseGkeVersion(run.raw[i]))

\* what getLatestGKEVersion does: it returns "v" and the first of the listed
\* versions that starts with the prefix, which is the newest of them when the
\* list is in descending order, and an error when none does.
C39_ReturnsFirstListed ==
    run.op = "getLatestGKEVersion" =>
        LET with == WithPrefix(run.raw, run.releasePrefix)
        IN  /\ with = {} => (err # NoError /\ parsed[1] = <<>>)
            /\ with # {} =>
                  /\ err = NoError
                  /\ \E i \in with :
                        /\ parsed[1] = <<"v">> \o run.raw[i]
                        /\ \A j \in with : i <= j
                        /\ (AllParse(run.raw) /\ Descending(run.raw)) =>
                              \A j \in with : ~LexGreater(parseGkeVersion(run.raw[j]),
                                                          parseGkeVersion(run.raw[i]))

\* a descending list and a prefix that the first version does not have
C39_DescendingWitness ==
    /\ run.op = "getLatestGKEVersion"
    /\ run.raw = <<V2_0_0_gke0, V1_20_3_gke1, V1_2_3_gke4>>
    /\ run.releasePrefix = <<"1", ".", "2">>
    /\ err = NoError
    /\ parsed[1] = <<"v">> \o V1_20_3_gke1

\* a list that is not in descending order: the first version is returned
C39_Witness ==
    /\ run.op = "getLatestGKEVersion"
    /\ run.raw = <<V1_2_3_gke4, V1_20_3_gke1>>
    /\ run.releasePrefix = <<>>
    /\ err = NoError
    /\ parsed[1] = <<"v">> \o V1_2_3_gke4

\* no version with the prefix: an error
C39_ErrorWitness ==
    /\ run.op = "getLatestGKEVersion"
    /\ run.raw = <<V2_0_0_gke0, V1_20_3_gke1>>
    /\ run.releasePrefix = <<"3">>
    /\ err = ErrNoRelease

====
